---------------------------- MODULE Spec2Model ----------------------------
(***************************************************************************)
(* Dynamic Course Generator: the adaptive assessment engine (quiz grading, *)
(* difficulty / Bloom-level adjustment, progress records), the LLM retry   *)
(* loop, and the lesson / quiz pages of the React client that drive quiz   *)
(* submission and content regeneration.                                    *)
(*                                                                         *)
(* Scores are Python floats in the backend.  They are modelled as exact    *)
(* fractions [num, den]; every threshold comparison the backend makes      *)
(* (50.0, 70.0, 85.0 against (correct / total) * 100) gives the same       *)
(* answer on the exact fraction as on the IEEE double.                     *)
(***************************************************************************)
EXTENDS Integers, Sequences, FiniteSets, TLC

None == "none"

(***************************************************************************)
(* Exact fractions for float scores.                                       *)
(***************************************************************************)
RECURSIVE GCD(_, _)
GCD(a, b) == IF b = 0 THEN a ELSE GCD(b, a % b)

Frac(n, d) == LET g == GCD(n, d) IN
              IF n = 0 THEN [num |-> 0, den |-> 1]
                       ELSE [num |-> n \div g, den |-> d \div g]

FracGE(x, t) == x.num >= t * x.den
FracLT(x, t) == x.num < t * x.den
FracLE(x, y) == x.num * y.den <= y.num * x.den
FracMax(x, y) == IF FracLE(x, y) THEN y ELSE x

(***************************************************************************)
(* quiz_service.py constants                                               *)
(***************************************************************************)
PASS_THRESHOLD == 70
MASTERY_THRESHOLD == 85
STRUGGLING_THRESHOLD == 50

difficulty_order == <<"easy", "medium", "hard">>
BLOOM_LEVELS == <<"Remember", "Understand", "Apply", "Analyze", "Evaluate", "Create">>

Difficulties == {difficulty_order[i] : i \in 1..Len(difficulty_order)}
BloomLevels == {BLOOM_LEVELS[i] : i \in 1..Len(BLOOM_LEVELS)}

\* list.index(x), 0-based as in Python
IndexOf(seq, x) == (CHOOSE i \in 1..Len(seq) : seq[i] = x) - 1
\* seq[i], 0-based as in Python
At(seq, i) == seq[i + 1]

\* a plausible slip: the mastery comparison written strictly
calculate_new_difficulty_strict(current_difficulty, score) ==
    LET current_index == IndexOf(difficulty_order, current_difficulty) IN
    IF score.num > MASTERY_THRESHOLD * score.den
    THEN IF current_index < 2 THEN At(difficulty_order, current_index + 1)
                              ELSE current_difficulty
    ELSE IF FracLT(score, STRUGGLING_THRESHOLD)
         THEN IF current_index > 0 THEN At(difficulty_order, current_index - 1)
                                   ELSE current_difficulty
         ELSE current_difficulty

\* a plausible slip: the two index steps exchanged
calculate_new_difficulty_swapped(current_difficulty, score) ==
    LET current_index == IndexOf(difficulty_order, current_difficulty) IN
    IF FracGE(score, MASTERY_THRESHOLD)
    THEN IF current_index > 0 THEN At(difficulty_order, current_index - 1)
                              ELSE current_difficulty
    ELSE IF FracLT(score, STRUGGLING_THRESHOLD)
         THEN IF current_index < 2 THEN At(difficulty_order, current_index + 1)
                                   ELSE current_difficulty
         ELSE current_difficulty

\* a plausible slip: mastery jumps straight to the top tier
calculate_new_difficulty_jump(current_difficulty, score) ==
    IF FracGE(score, MASTERY_THRESHOLD) THEN At(difficulty_order, 2)
    ELSE IF FracLT(score, STRUGGLING_THRESHOLD) THEN At(difficulty_order, 0)
    ELSE current_difficulty

calculate_new_difficulty(current_difficulty, score) ==
    LET current_index == IndexOf(difficulty_order, current_difficulty) IN
    IF FracGE(score, MASTERY_THRESHOLD)
    THEN IF current_index < 2 THEN At(difficulty_order, current_index + 1)
                              ELSE current_difficulty
    ELSE IF FracLT(score, STRUGGLING_THRESHOLD)
         THEN IF current_index > 0 THEN At(difficulty_order, current_index - 1)
                                   ELSE current_difficulty
         ELSE current_difficulty

\* The body of calculate_new_bloom_level is not part of the documented
\* sources; only its signature (current_bloom, score, passed) and the rule
\* "same thresholds, one level up / down" are.
calculate_new_bloom_level(current_bloom, score, passed) ==
    LET current_index == IndexOf(BLOOM_LEVELS, current_bloom) IN
    IF FracGE(score, MASTERY_THRESHOLD)
    THEN IF current_index < Len(BLOOM_LEVELS) - 1
         THEN At(BLOOM_LEVELS, current_index + 1)
         ELSE current_bloom
    ELSE IF FracLT(score, STRUGGLING_THRESHOLD)
         THEN IF current_index > 0 THEN At(BLOOM_LEVELS, current_index - 1)
                                   ELSE current_bloom
         ELSE current_bloom


(***************************************************************************)
(* Quizzes and submissions.  A question carries its identifier, its four   *)
(* options and the designated correct option; a submission is the dict     *)
(* question_id -> selected option string.                                  *)
(***************************************************************************)
MaxQuestions == 3

QuestionIds == <<"q1", "q2", "q3", "q4", "q5", "q6">>
UnknownId == "qx"
Options == <<"A", "B", "C", "D">>
OptionSet == {Options[i] : i \in 1..Len(Options)}
\* what a client may send for one question: an option, or an option in
\* another letter case
AnswerStrings == {"A", "B", "a"}

Question(id, correct) ==
    [question_id |-> id, options |-> Options, correct_answer |-> correct]

ValidQuizzes(n) ==
    {[i \in 1..n |-> Question(QuestionIds[i], c[i])] : c \in [1..n -> OptionSet]}

QuizIds(questions) == {questions[i].question_id : i \in 1..Len(questions)}

\* every dict over a subset of ids
Dicts(ids, values) == UNION {[d -> values] : d \in SUBSET ids}

\* dict.get(key, default)
Get(dict, key, default) == IF key \in DOMAIN dict THEN dict[key] ELSE default

Upper(x) == IF x = "a" THEN "A" ELSE x

\* a plausible slip: answers compared without regard to letter case
grade_quiz_caseless(questions, answers) ==
    LET user_answer(q) == Get(answers, q.question_id, "")
        is_correct(q) == Upper(user_answer(q)) = Upper(q.correct_answer)
        correct_count == Cardinality({i \in 1..Len(questions) : is_correct(questions[i])})
    IN [score |-> Frac(correct_count * 100, Len(questions)),
        correct_count |-> correct_count,
        total |-> Len(questions),
        feedback |-> [i \in 1..Len(questions) |->
                        [question_id |-> questions[i].question_id,
                         user_answer |-> user_answer(questions[i]),
                         correct_answer |-> questions[i].correct_answer,
                         is_correct |-> is_correct(questions[i])]]]

grade_quiz(questions, answers) ==
    LET user_answer(q) == Get(answers, q.question_id, "")
        is_correct(q) == user_answer(q) = q.correct_answer
        correct_count == Cardinality({i \in 1..Len(questions) : is_correct(questions[i])})
    IN [score |-> Frac(correct_count * 100, Len(questions)),
        correct_count |-> correct_count,
        total |-> Len(questions),
        feedback |-> [i \in 1..Len(questions) |->
                        [question_id |-> questions[i].question_id,
                         user_answer |-> user_answer(questions[i]),
                         correct_answer |-> questions[i].correct_answer,
                         is_correct |-> is_correct(questions[i])]]]

\* QuizResult.needs_feedback: the submission has a wrong or unanswered
\* question
needs_feedback(correct_count, total) == correct_count < total

\* passed: the score reaches PASS_THRESHOLD ("minimum to pass quiz")
is_passed(score) == FracGE(score, PASS_THRESHOLD)


(***************************************************************************)
(* The course, the learners and the progress store.  storage.py keeps one  *)
(* progress file per (course, user); the file holds the LessonProgress of  *)
(* every lesson of the course that user has attempted.  One course is      *)
(* modelled, so a file is named by its user.                               *)
(***************************************************************************)
MaxSubmissions == 3

Users == {"u1", "u2"}
Lessons == {"l1", "l2"}
Workers == {"w1", "w2"}

Quiz(l) == IF l = "l1" THEN <<Question("q1", "A"), Question("q2", "B")>>
                       ELSE <<Question("q3", "C")>>

LessonBloom(l) == IF l = "l1" THEN "Understand" ELSE "Remember"

\* dicts a client can post for lesson l: each question answered with its
\* correct option or left out, or a single entry for a foreign id
Submissions(l) ==
    {d \in Dicts(QuizIds(Quiz(l)) \cup {UnknownId}, OptionSet) :
        /\ \A i \in 1..Len(Quiz(l)) :
              Quiz(l)[i].question_id \in DOMAIN d =>
                  d[Quiz(l)[i].question_id] = Quiz(l)[i].correct_answer
        /\ UnknownId \in DOMAIN d => d = [x \in {UnknownId} |-> "A"]}

\* dict[key] = value
Put(dict, key, value) ==
    [x \in DOMAIN dict \cup {key} |-> IF x = key THEN value ELSE dict[x]]

\* a LessonProgress before its first attempt
new_lesson_progress(l) ==
    [quiz_attempts |-> 0,
     best_score |-> Frac(0, 1),
     current_difficulty |-> "medium",
     current_bloom_level |-> LessonBloom(l),
     smoothed_score |-> Frac(0, 1),
     attempt_history |-> <<>>]

\* alpha * current_result + (1 - alpha) * previous_score, alpha = 0.3,
\* current_result on the 0-1 scale
\* a plausible slip: alpha and 1 - alpha exchanged
smooth_swapped(score, previous) ==
    Frac(7 * score.num * previous.den + 3 * 100 * previous.num * score.den,
         10 * 100 * score.den * previous.den)

smooth(score, previous) ==
    Frac(3 * score.num * previous.den + 7 * 100 * previous.num * score.den,
         10 * 100 * score.den * previous.den)

\* a plausible slip: the best score is overwritten by the latest score
update_lesson_progress_latest(rec, score, passed) ==
    [quiz_attempts |-> rec.quiz_attempts + 1,
     best_score |-> score,
     current_difficulty |-> calculate_new_difficulty(rec.current_difficulty, score),
     current_bloom_level |-> calculate_new_bloom_level(rec.current_bloom_level, score, passed),
     smoothed_score |-> IF rec.quiz_attempts = 0
                        THEN Frac(score.num, 100 * score.den)
                        ELSE smooth(score, rec.smoothed_score),
     attempt_history |-> Append(rec.attempt_history,
                                [attempt_number |-> rec.quiz_attempts + 1,
                                 score |-> score,
                                 passed |-> passed,
                                 feedback |-> None])]

update_lesson_progress(rec, score, passed) ==
    [quiz_attempts |-> rec.quiz_attempts + 1,
     best_score |-> FracMax(rec.best_score, score),
     current_difficulty |-> calculate_new_difficulty(rec.current_difficulty, score),
     current_bloom_level |-> calculate_new_bloom_level(rec.current_bloom_level, score, passed),
     smoothed_score |-> IF rec.quiz_attempts = 0
                        THEN Frac(score.num, 100 * score.den)
                        ELSE smooth(score, rec.smoothed_score),
     attempt_history |-> Append(rec.attempt_history,
                                [attempt_number |-> rec.quiz_attempts + 1,
                                 score |-> score,
                                 passed |-> passed,
                                 feedback |-> None])]

\* a plausible slip: one lock per (user, lesson) although the file that is
\* read and written back holds every lesson of the user
LockKeyPerLesson(u, l) == <<u, l>>

\* The serialization of submissions: a lock on the progress file.
LockKey(u, l) == <<u>>


(***************************************************************************)
(* llm_service.py: call_llm_with_retry.  One invocation issues LLM calls   *)
(* until a response passes validate_json and the validator, or the         *)
(* attempts are used up.                                                   *)
(***************************************************************************)
MAX_RETRIES == 3

\* what one LLM call can end in: a response text, by what validate_json and
\* the validator make of it, or a failure of the call
ResponseKinds == {"valid", "repair_failed", "validation_failed"}
TransportFailures == {"timeout", "auth", "rate_limit", "network"}
RawTexts == {"raw_a", "raw_b"}

\* a plausible slip: one attempt too many
MoreAttemptsInclusive(calls) == calls <= MAX_RETRIES

\* a plausible slip: one attempt too few
MoreAttemptsShort(calls) == calls < MAX_RETRIES - 1

\* "MAX_RETRIES attempts"
MoreAttempts(calls) == calls < MAX_RETRIES

\* a plausible slip: only connection errors are retried, a timeout is fatal
is_retried_connection_only(failure) == failure = "network"

\* every failure of the call is retried, whatever its kind
is_retried(failure) == failure \in TransportFailures

NotReturned == [kind |-> None]
Success(raw) == [kind |-> "success", value |-> raw, raised |-> FALSE]
GenerationExhausted(last_raw) ==
    [kind |-> "exhausted", last_raw |-> last_raw, raised |-> FALSE]
Raised(failure) == [kind |-> failure, raised |-> TRUE]

(***************************************************************************)
(* The React client: LessonPage and QuizPage, each open in a browser tab   *)
(* on lesson ViewedLesson of the course, and the server's stored course.   *)
(* A regeneration (POST /feedback, /quiz/retake, /quiz/regenerate-easier)  *)
(* runs at the server from the moment the page issues it until the page's  *)
(* await resumes.                                                          *)
(***************************************************************************)
MaxRegenerations == 3

Tabs == {"t1", "t2"}
ViewedLesson == "l1"
CourseLessonIds == <<"l1", "l2">>

\* POST /feedback: the lesson's content is replaced, the lesson stays
regenerated_lesson(lesson, version) ==
    [lesson EXCEPT !.content = version]

\* POST /quiz/retake, /quiz/regenerate-easier: the lesson's quiz is replaced
regenerated_quiz(lesson, version) ==
    [lesson EXCEPT !.quiz = version]

\* a plausible slip: the match on lesson_id left out of the loop, so the
\* last lesson visited wins
FindLessonLast(courseData, lessonId) ==
    IF Len(courseData) = 0 THEN [lesson_id |-> None]
    ELSE courseData[Len(courseData)]

\* loadData: the forEach over modules and lessons; foundLesson is the
\* (last) lesson whose lesson_id is lessonId, or null
FindLesson(courseData, lessonId) ==
    LET hits == {i \in 1..Len(courseData) : courseData[i].lesson_id = lessonId} IN
    IF hits = {} THEN [lesson_id |-> None]
    ELSE courseData[CHOOSE i \in hits : \A j \in hits : j <= i]

\* the slot a regeneration call replaces
SlotOf(call) ==
    CASE call = "feedback" -> "lesson"
      [] call \in {"retake", "easier"} -> "quiz"
      [] OTHER -> None


(***************************************************************************)
(* One LessonProgress through a sequence of graded attempts.  Each attempt *)
(* is a quiz of one of QuizSizes questions with some of them answered      *)
(* correctly, graded by grade_quiz.                                        *)
(***************************************************************************)
MaxAttempts == 3

\* generateQuiz's default numQuestions, and a longer quiz
QuizSizes == {3, 10}

QuizOfSize(n) == [i \in 1..n |-> Question(i, "A")]

\* the dict that answers the first c questions correctly and omits the rest
FirstCorrect(c) == [i \in 1..c |-> "A"]


(***************************************************************************)
(* quiz_service.py: calculate_mastery_level.                               *)
(***************************************************************************)
\* a plausible slip: the attempt count is not looked at
calculate_mastery_level_by_score(best_score, quiz_attempts) ==
    IF FracGE(best_score, MASTERY_THRESHOLD)
    THEN [level |-> "Mastered", color |-> "emerald"]
    ELSE IF FracGE(best_score, PASS_THRESHOLD)
    THEN [level |-> "Proficient", color |-> "blue"]
    ELSE IF FracGE(best_score, STRUGGLING_THRESHOLD)
    THEN [level |-> "Developing", color |-> "amber"]
    ELSE [level |-> "Needs Practice", color |-> "rose"]

calculate_mastery_level(best_score, quiz_attempts) ==
    IF quiz_attempts = 0
    THEN [level |-> "Not Started", color |-> "gray"]
    ELSE IF FracGE(best_score, 85)
    THEN [level |-> "Mastered", color |-> "emerald"]
    ELSE IF FracGE(best_score, 70)
    THEN [level |-> "Proficient", color |-> "blue"]
    ELSE IF FracGE(best_score, 50)
    THEN [level |-> "Developing", color |-> "amber"]
    ELSE [level |-> "Needs Practice", color |-> "rose"]


(***************************************************************************)
(* The quiz path of call_llm_with_retry: validate_json (with               *)
(* repair_quiz_json as its last stage) yields a candidate question list,   *)
(* the validator accepts or rejects it.                                    *)
(***************************************************************************)
MaxCandidateQuestions == 2

\* the stage of validate_json that produced the candidate
RepairStages == {"direct_parse", "fix_common", "extract_array", "repair_quiz_json"}

\* option lists and designated answers a response can carry
CandidateOptions == {<<"A", "B", "C", "D">>, <<"A", "B", "C">>, <<"A", "B", "C", "D", "E">>}
CandidateAnswers == {"A", "D", "E"}

CandidateQuestions ==
    {[options |-> o, correct_answer |-> a] : o \in CandidateOptions, a \in CandidateAnswers}

Candidates ==
    UNION {[1..n -> CandidateQuestions] : n \in 1..MaxCandidateQuestions}

Elements(seq) == {seq[i] : i \in 1..Len(seq)}

question_is_valid(q) ==
    /\ Len(q.options) = 4
    /\ q.correct_answer \in Elements(q.options)

NoValue == [accepted |-> FALSE, value |-> <<>>]

\* a plausible slip: a bad answer key is replaced by the first option
validate_quiz_repairing(candidate, stage) ==
    IF \A i \in 1..Len(candidate) : Len(candidate[i].options) = 4
    THEN [accepted |-> TRUE,
          value |-> [i \in 1..Len(candidate) |->
                       IF question_is_valid(candidate[i]) THEN candidate[i]
                       ELSE [candidate[i] EXCEPT !.correct_answer = candidate[i].options[1]]]]
    ELSE NoValue

\* the validator on a candidate question list: the list as it is, or a
\* validation failure
validate_quiz(candidate, stage) ==
    IF \A i \in 1..Len(candidate) : question_is_valid(candidate[i])
    THEN [accepted |-> TRUE, value |-> candidate]
    ELSE NoValue


(***************************************************************************)
(* The routes around one learner's record for one lesson: POST             *)
(* /submit-quiz, /feedback, /quiz/retake, /quiz/regenerate-easier and      *)
(* /progress/lesson-access, with the generation each of them asks for.     *)
(***************************************************************************)
MaxSteps == 3

CoordLesson == "l1"

\* POST /feedback: the feedback types of the API
FEEDBACK_TYPES == {"too_easy", "too_hard", "unclear", "more_examples", "different_approach"}

\* what the client components hold as feedback values: FeedbackPanel's
\* types, and the values of QuizFeedbackModal
SentTags == FEEDBACK_TYPES \cup {"Too difficult", "Okay, can continue"}

\* a plausible slip: an unknown type is taken as "unclear"
accepted_feedback_type_defaulting(tag) ==
    IF tag \in FEEDBACK_TYPES THEN <<tag>> ELSE <<"unclear">>

\* FeedbackRequest.feedback_type: the type as sent, or none when it is not
\* one of FEEDBACK_TYPES
accepted_feedback_type(tag) ==
    IF tag \in FEEDBACK_TYPES THEN <<tag>> ELSE <<>>

\* a plausible slip: "easier" always means the bottom tier
lower_difficulty_to_easy(difficulty) == At(difficulty_order, 0)

\* "Lowers difficulty by one level"
lower_difficulty(difficulty) ==
    LET current_index == IndexOf(difficulty_order, difficulty) IN
    IF current_index > 0 THEN At(difficulty_order, current_index - 1)
                         ELSE difficulty

\* a plausible slip: the lowered difficulty is written into the record
store_after_generation_persisting(st, l, difficulty) ==
    Put(st, l, [Get(st, l, new_lesson_progress(l)) EXCEPT !.current_difficulty = difficulty])

\* the progress file after a generation for lesson l: as it was
store_after_generation(st, l, difficulty) == st

NoGeneration == [kind |-> None]

\* the parameters of a quiz generation (generate_quiz_content)
QuizGeneration(bloom_level, difficulty) ==
    [kind |-> "quiz", bloom_level |-> bloom_level, difficulty |-> difficulty,
     feedback_type |-> None]

\* the parameters of a lesson regeneration (regenerate_lesson_content); the
\* lesson keeps its Bloom level and the learner's tier is not touched
LessonGeneration(bloom_level, difficulty, feedback_type) ==
    [kind |-> "lesson", bloom_level |-> bloom_level, difficulty |-> difficulty,
     feedback_type |-> feedback_type]


(***************************************************************************)
(* One LLM call as the Generation Client sees it: time passes while the    *)
(* generator has not answered, and the call is given up at its timeout.    *)
(***************************************************************************)
CallTimeout == 3

\* a plausible slip: the call is made without a timeout
deadline_never(elapsed) == FALSE

\* the hard timeout of a call
deadline_reached(elapsed) == elapsed >= CallTimeout


(***************************************************************************)
(* validate_json, structural extraction: the first bracketed span of the   *)
(* text.  A text is a sequence of characters; "q" is the double quote and  *)
(* "x" any character that is neither a bracket nor a quote.                *)
(***************************************************************************)
MaxProse == 2

ProseChars == {"x", "[", "]", "q"}

Prose == UNION {[1..n -> ProseChars] : n \in 0..MaxProse}

\* well-formed JSON texts: [], {}, [[]], ["]"], ["["], [[],[]] without its
\* comma, {"x"...} reduced to its brackets and quotes
EmbeddedValues ==
    {<<"[", "]">>,
     <<"{", "}">>,
     <<"[", "[", "]", "]">>,
     <<"[", "q", "]", "q", "]">>,
     <<"[", "q", "[", "q", "]">>,
     <<"{", "q", "x", "q", "[", "]", "}">>}

Openers == {"[", "{"}

Closer(open) == IF open = "[" THEN "]" ELSE "}"

\* the index of the first opening bracket of text, or 0
FirstOpener(text) ==
    IF \E i \in 1..Len(text) : text[i] \in Openers
    THEN CHOOSE i \in 1..Len(text) :
            /\ text[i] \in Openers
            /\ \A j \in 1..(i - 1) : text[j] \notin Openers
    ELSE 0

\* a plausible slip: quotes are not tracked, every bracket counts
RECURSIVE ScanNoStrings(_, _, _, _, _)
ScanNoStrings(text, open, i, depth, in_string) ==
    IF i > Len(text) THEN 0
    ELSE LET ch == text[i]
             d == IF ch = open THEN depth + 1
                  ELSE IF ch = Closer(open) THEN depth - 1
                  ELSE depth
         IN IF d = 0 THEN i
            ELSE ScanNoStrings(text, open, i + 1, d, FALSE)

\* from the opener at i: the index where its span closes, or 0; brackets
\* inside a string literal are not counted
RECURSIVE Scan(_, _, _, _, _)
Scan(text, open, i, depth, in_string) ==
    IF i > Len(text) THEN 0
    ELSE LET ch == text[i]
             d == IF in_string \/ ch = "q" THEN depth
                  ELSE IF ch = open THEN depth + 1
                  ELSE IF ch = Closer(open) THEN depth - 1
                  ELSE depth
             s == IF ch = "q" THEN ~in_string ELSE in_string
         IN IF d = 0 THEN i
            ELSE Scan(text, open, i + 1, d, s)

NotExtracted == [done |-> FALSE, ok |-> FALSE, value |-> <<>>]

\* the stage: the first balanced span, decoded on its own
extract_json(text) ==
    LET start == FirstOpener(text)
        end == IF start = 0 THEN 0 ELSE Scan(text, text[start], start, 0, FALSE)
        span == IF end = 0 THEN <<>> ELSE SubSeq(text, start, end)
    IN IF span \in EmbeddedValues
       THEN [done |-> TRUE, ok |-> TRUE, value |-> span]
       ELSE [done |-> TRUE, ok |-> FALSE, value |-> <<>>]


(***************************************************************************)
(* validate_json as a whole: its stages in order on one raw response.  A   *)
(* raw response is described by what each stage makes of it.               *)
(***************************************************************************)
\* a plausible slip: the aggressive repair tried before the truncation
STAGE_ORDER_SWAPPED ==
    <<"direct_parse", "fix_common", "extract_array", "extract_object",
      "repair_quiz_json", "truncate">>

STAGE_ORDER ==
    <<"direct_parse", "fix_common", "extract_array", "extract_object",
      "truncate", "repair_quiz_json">>

Stages == {STAGE_ORDER[i] : i \in 1..Len(STAGE_ORDER)}

\* what a stage yields on a text: no value, or one of two decoded values
StageOutcomes == {"fail", "value_a", "value_b"}

\* the text handed to the i-th stage
stage_input(i) == "raw"

NotRepaired == [done |-> FALSE, ok |-> FALSE, value |-> None, stage |-> None]
RepairFailed == [done |-> TRUE, ok |-> FALSE, value |-> None, stage |-> None]

(***************************************************************************)
(* The home page and the application's routes.  A path is the sequence of  *)
(* its segments ("/" is the empty sequence); a route pattern is a sequence *)
(* of segments of which those in RouteParams match any one segment.        *)
(***************************************************************************)
MaxIndex == 1

Courses == {"c1", "c2"}

RouteParams == {":courseId", ":lessonId"}

ROUTES ==
    { <<"login">>,
      <<"register">>,
      <<>>,
      <<"course", ":courseId">>,
      <<"course", ":courseId", "lesson", ":lessonId">>,
      <<"course", ":courseId", "lesson", ":lessonId", "quiz">>,
      <<"course", ":courseId", "progress">> }

\* the pattern matches the path: as many segments, each equal or a parameter
Matches(path, pattern) ==
    /\ Len(path) = Len(pattern)
    /\ \A i \in 1..Len(pattern) :
          pattern[i] \in RouteParams \/ pattern[i] = path[i]

\* what the router renders for a path: a route of the table, or nothing
Defined(path) == \E pattern \in ROUTES : Matches(path, pattern)

\* the progress lists getAllProgress can return: at most one per course
ProgressEntries ==
    [course_id : Courses, current_module_index : 0..MaxIndex,
     current_lesson_index : 0..MaxIndex]

ProgressLists ==
    {data \in SUBSET ProgressEntries :
        \A p, q \in data : p.course_id = q.course_id => p = q}

HasProgress(data, courseId) == \E p \in data : p.course_id = courseId

getProgressForCourse(data, courseId) ==
    CHOOSE p \in data : p.course_id = courseId

\* the path handleContinue navigates to
handleContinue(data, courseId) ==
    IF HasProgress(data, courseId)
    THEN LET progress == getProgressForCourse(data, courseId)
         IN  <<"course", courseId, "lesson",
               ToString(progress.current_module_index),
               ToString(progress.current_lesson_index)>>
    ELSE <<"course", courseId>>

(***************************************************************************)
(* The feedback components: the options each one offers and the value it   *)
(* hands on when the learner picks one.                                    *)
(***************************************************************************)
MaxEmitted == 2

\* FeedbackPanel: option.type
feedbackOptions ==
    {"too_easy", "too_hard", "unclear", "more_examples", "different_approach"}

\* WrongAnswerFeedbackModal: option.id
FEEDBACK_OPTIONS == {"Too difficult", "Concept unclear", "Need more examples"}

\* QuizFeedbackModal: option.value
quizFeedbackOptions ==
    {"Too difficult", "Concept unclear", "Need more examples",
     "Okay, can continue"}

CommentTexts == {"", "text"}

(***************************************************************************)
(* MasteryIndicator and the statistics of ProgressPage.  A JavaScript      *)
(* number that may be NaN is <<n>> or NaN; the lessons of the progress     *)
(* data are taken in the order the page's reduce / forEach visits them.    *)
(***************************************************************************)
MaxLessons == 3

NaN == <<>>

\* the keys of masteryConfig
masteryConfig == {"Mastery", "Proficient", "Developing", "Beginning", "Not Started"}

\* masteryConfig[mastery?.level] || masteryConfig['Not Started']
MasteryIndicatorConfig(mastery) ==
    IF mastery.level \in masteryConfig THEN mastery.level ELSE "Not Started"

FracAdd(x, y) == Frac(x.num * y.den + y.num * x.den, x.den * y.den)

FracDiv(x, n) == Frac(x.num, x.den * n)

\* Math.round of a non-negative number
MathRound(x) == (2 * x.num + x.den) \div (2 * x.den)

\* a lesson of the progress data, its mastery recomputed on read
LessonProgress(best_score, quiz_attempts, completed) ==
    [best_score |-> best_score, quiz_attempts |-> quiz_attempts,
     completed |-> completed,
     mastery |-> calculate_mastery_level(best_score, quiz_attempts)]

BestScores == {Frac(0, 1), Frac(100, 3), Frac(50, 1), Frac(200, 3), Frac(100, 1)}

\* the lesson states the service can hold: not attempted; attempted, and
\* completed only after a passed attempt
LessonStates ==
    {LessonProgress(Frac(0, 1), 0, FALSE)}
    \cup {LessonProgress(s, 1, FALSE) : s \in BestScores}
    \cup {LessonProgress(s, 1, TRUE) : s \in {x \in BestScores : FracGE(x, PASS_THRESHOLD)}}

ProgressData == UNION {[1..n -> LessonStates] : n \in 1..MaxLessons}

RECURSIVE CountCompleted(_, _)
CountCompleted(lessons, i) ==
    IF i > Len(lessons) THEN 0
    ELSE (IF lessons[i].completed THEN 1 ELSE 0) + CountCompleted(lessons, i + 1)

RECURSIVE SumAttempts(_, _)
SumAttempts(lessons, i) ==
    IF i > Len(lessons) THEN 0
    ELSE lessons[i].quiz_attempts + SumAttempts(lessons, i + 1)

\* the sum of the best scores above zero
RECURSIVE SumBestScores(_, _)
SumBestScores(lessons, i) ==
    IF i > Len(lessons) THEN Frac(0, 1)
    ELSE IF lessons[i].best_score.num > 0
    THEN FracAdd(lessons[i].best_score, SumBestScores(lessons, i + 1))
    ELSE SumBestScores(lessons, i + 1)

\* the sum divided by (completedLessons || 1)
avgScore(lessons) ==
    LET completedLessons == CountCompleted(lessons, 1)
    IN  FracDiv(SumBestScores(lessons, 1),
                IF completedLessons = 0 THEN 1 ELSE completedLessons)

\* count++ on a property of masteryCount: NaN for a missing property
Incremented(count, level) ==
    [k \in DOMAIN count \cup {level} |->
        IF k # level THEN count[k]
        ELSE IF level \in DOMAIN count /\ count[level] # NaN
        THEN <<count[level][1] + 1>>
        ELSE NaN]

RECURSIVE CountLevels(_, _, _)
CountLevels(lessons, i, count) ==
    IF i > Len(lessons) THEN count
    ELSE CountLevels(lessons, i + 1, Incremented(count, lessons[i].mastery.level))

masteryCount(lessons) ==
    CountLevels(lessons, 1, [k \in masteryConfig |-> <<0>>])

(***************************************************************************)
(* QuizPage, one mounted instance: the answers, the result and the         *)
(* requests of handleSubmit, handleRetake and handleRegenerateEasier.      *)
(* An optional value is <<>> or <<v>>; q_last names the handler or the     *)
(* continuation that ran last.                                             *)
(***************************************************************************)
QuizQuestionIds == {"q1", "q2"}

QuizOptions == {"A", "B"}

\* the answers object: question_id -> option, for the questions answered
AnswerSets == UNION {[ids -> QuizOptions] : ids \in SUBSET QuizQuestionIds}

NoAnswers == CHOOSE a \in AnswerSets : DOMAIN a = {}

\* the responses of submit-quiz: a failed attempt has wrong answers
QuizResults ==
    {r \in [passed : BOOLEAN, needs_feedback : BOOLEAN] :
        ~r.passed => r.needs_feedback}

\* a plausible slip: the guard on result is missing
handleSelectAnswer_unguarded(result, answers, questionId, answer) ==
    [id \in DOMAIN answers \cup {questionId} |->
        IF id = questionId THEN answer ELSE answers[id]]

\* if (result) return; setAnswers(prev => ({ ...prev, [questionId]: answer }))
handleSelectAnswer(result, answers, questionId, answer) ==
    IF result # <<>> THEN answers
    ELSE [id \in DOMAIN answers \cup {questionId} |->
             IF id = questionId THEN answer ELSE answers[id]]

\* a plausible slip: the lesson is marked completed whatever the result
marks_completed_always(resultData) == TRUE

\* if (resultData.passed): the lesson is marked completed
marks_completed(resultData) == resultData.passed

NoRequests ==
    [load |-> "idle", submit |-> "idle", mark |-> "idle", retake |-> "idle",
     easier |-> "idle"]

(***************************************************************************)
(* CoursePage, one mounted instance.  A course is known by the generation  *)
(* it belongs to (0 for the course first loaded, one more per successful   *)
(* regeneration) and its confirmed flag; an optional value is <<>> or <<v>>.*)
(***************************************************************************)
MaxGenerations == 3

MaxPendingConfirms == 1

CourseData(generation, confirmed) ==
    [generation |-> generation, confirmed |-> confirmed]

\* const isLocked = !course.confirmed
isLocked(course) == ~course.confirmed

\* the i-th element of a sequence removed
WithoutIndex(seq, i) == SubSeq(seq, 1, i - 1) \o SubSeq(seq, i + 1, Len(seq))

VARIABLES adj_difficulty, adj_bloom, adj_score, adj_passed, adj_result,
          g_questions, g_answers, g_result,
          progress, locks, pc, req, snap, result, submitted, applied,
          r_pc, r_calls, r_outcomes, r_last_raw, r_return,
          course, page, version, regenerations,
          record, before, attempt,
          m_best, m_attempts, m_level,
          v_pc, v_attempt, v_stage, v_candidate, v_return,
          c_store, c_before, c_last, c_prev_tier, c_steps,
          k_pc, k_calls, k_elapsed, k_outcomes, k_return,
          x_lead, x_value, x_trail, x_result,
          t_profile, t_next, t_tried, t_result,
          h_progressData, h_location, h_origin,
          fp_isOpen, fp_selectedType, fp_comments, f_modal, f_emitted,
          pp_progress, pp_isLoading, pp_error, pp_stats,
          q_quiz, q_answers, q_result, q_flags, q_pending, q_last,
          cp_course, cp_flags, cp_load, cp_confirming, cp_regenerate, cp_generation, cp_last

adjVars == <<adj_difficulty, adj_bloom, adj_score, adj_passed, adj_result>>

gradeVars == <<g_questions, g_answers, g_result>>

engineVars == <<progress, locks, pc, req, snap, result, submitted, applied>>

retryVars == <<r_pc, r_calls, r_outcomes, r_last_raw, r_return>>

pageVars == <<course, page, version, regenerations>>

recordVars == <<record, before, attempt>>

masteryVars == <<m_best, m_attempts, m_level>>

validateVars == <<v_pc, v_attempt, v_stage, v_candidate, v_return>>

coordVars == <<c_store, c_before, c_last, c_prev_tier, c_steps>>

clientVars == <<k_pc, k_calls, k_elapsed, k_outcomes, k_return>>

extractVars == <<x_lead, x_value, x_trail, x_result>>

repairVars == <<t_profile, t_next, t_tried, t_result>>

homeVars == <<h_progressData, h_location, h_origin>>

feedbackVars == <<fp_isOpen, fp_selectedType, fp_comments, f_modal, f_emitted>>

progressVars == <<pp_progress, pp_isLoading, pp_error, pp_stats>>

quizVars == <<q_quiz, q_answers, q_result, q_flags, q_pending, q_last>>

courseVars == <<cp_course, cp_flags, cp_load, cp_confirming, cp_regenerate, cp_generation, cp_last>>

vars == <<adjVars, gradeVars, engineVars, retryVars, pageVars, recordVars, masteryVars, validateVars, coordVars, clientVars, extractVars, repairVars, homeVars, feedbackVars, progressVars, quizVars, courseVars>>

(***************************************************************************)
(* Level adjustment on its own: every tier, level, whole-percent score and *)
(* pass flag, then step 3 of process_quiz_submission.                      *)
(***************************************************************************)
NoAdjustment == [updated_difficulty |-> None, next_bloom_level |-> None]
AdjDone == adj_result # NoAdjustment

AdjIdle ==
    /\ adj_difficulty = "medium"
    /\ adj_bloom = "Remember"
    /\ adj_score = Frac(0, 1)
    /\ adj_passed = FALSE
    /\ adj_result = NoAdjustment

NotGraded == [score |-> None]
Graded == g_result # NotGraded

GradeIdle ==
    /\ g_questions = <<>>
    /\ g_answers = <<>>
    /\ g_result = NotGraded

\* the stored course: its lessons in order, each with the version of its
\* content and of its quiz
InitialCourse ==
    [i \in 1..Len(CourseLessonIds) |->
        [lesson_id |-> CourseLessonIds[i], content |-> 0, quiz |-> 0]]

NoLesson == [lesson_id |-> None]
NoQuizResult == [passed |-> None]

\* a page as mounted: useState defaults, with the useEffect's load running
Mounted(kind) ==
    [kind |-> kind,
     isLoading |-> TRUE,
     isRegenerating |-> FALSE,
     isRetaking |-> FALSE,
     isSubmitting |-> FALSE,
     error |-> FALSE,
     lesson |-> NoLesson,
     quiz |-> <<>>,
     result |-> NoQuizResult,
     showFeedbackPrompt |-> TRUE,
     pending |-> "load",
     regenerated |-> 0]

PagesIdle ==
    /\ course = InitialCourse
    /\ page = [t \in Tabs |-> Mounted("lesson")]
    /\ version = 0
    /\ regenerations = 0

NoAttempt == [score |-> None]

RecordIdle ==
    /\ record = new_lesson_progress("l1")
    /\ before = new_lesson_progress("l1")
    /\ attempt = NoAttempt

NotClassified == [level |-> None, color |-> None]

MasteryIdle ==
    /\ m_best = Frac(0, 1)
    /\ m_attempts = 0
    /\ m_level = NotClassified

ValidateIdle ==
    /\ v_pc = "idle"
    /\ v_attempt = 0
    /\ v_stage = None
    /\ v_candidate = <<>>
    /\ v_return = NotReturned

NoOperation == [op |-> None, tag |-> None, status |-> 0, generation |-> NoGeneration]

CoordIdle ==
    /\ c_store = <<>>
    /\ c_before = <<>>
    /\ c_last = NoOperation
    /\ c_prev_tier = "medium"
    /\ c_steps = 0

ClientIdle ==
    /\ k_pc = "idle"
    /\ k_calls = 0
    /\ k_elapsed = 0
    /\ k_outcomes = <<>>
    /\ k_return = NotReturned

ExtractIdle ==
    /\ x_lead = <<>>
    /\ x_value = <<>>
    /\ x_trail = <<>>
    /\ x_result = NotExtracted

RepairIdle ==
    /\ t_profile = [st \in Stages |-> "fail"]
    /\ t_next = 1
    /\ t_tried = <<>>
    /\ t_result = NotRepaired

HomeIdle ==
    /\ h_progressData = {}
    /\ h_location = <<>>
    /\ h_origin = "none"

FeedbackUIIdle ==
    /\ fp_isOpen = FALSE
    /\ fp_selectedType = <<>>
    /\ fp_comments = ""
    /\ f_modal = "none"
    /\ f_emitted = <<>>

ProgressPageIdle ==
    /\ pp_progress = <<>>
    /\ pp_isLoading = TRUE
    /\ pp_error = FALSE
    /\ pp_stats = <<>>

QuizIdle ==
    /\ q_quiz = <<>>
    /\ q_answers = NoAnswers
    /\ q_result = <<>>
    /\ q_flags = [isLoading |-> TRUE, isSubmitting |-> FALSE,
                  isRetaking |-> FALSE, isRegenerating |-> FALSE,
                  error |-> FALSE, showFeedbackPrompt |-> TRUE]
    /\ q_pending = NoRequests
    /\ q_last = "none"

CourseIdle ==
    /\ cp_course = <<>>
    /\ cp_flags = [isLoading |-> TRUE, isRegenerating |-> FALSE,
                   error |-> FALSE, showConfirmModal |-> FALSE]
    /\ cp_load = "idle"
    /\ cp_confirming = <<>>
    /\ cp_regenerate = "idle"
    /\ cp_generation = 0
    /\ cp_last = "none"

RetryIdle ==
    /\ r_pc = "idle"
    /\ r_calls = 0
    /\ r_outcomes = <<>>
    /\ r_last_raw = None
    /\ r_return = NotReturned

NoRequest == [user |-> None, lesson |-> None, answers |-> <<>>]
NoResult == [status |-> None]

EngineIdle ==
    /\ progress = [u \in Users |-> <<>>]
    /\ locks = {}
    /\ pc = [w \in Workers |-> "idle"]
    /\ req = [w \in Workers |-> NoRequest]
    /\ snap = [w \in Workers |-> <<>>]
    /\ result = [w \in Workers |-> NoResult]
    /\ submitted = 0
    /\ applied = [u \in Users |-> [l \in Lessons |-> <<>>]]

InitLevels ==
    /\ adj_difficulty \in Difficulties
    /\ adj_bloom \in BloomLevels
    /\ adj_score \in {Frac(s, 1) : s \in 0..100}
    /\ adj_passed \in BOOLEAN
    /\ adj_result = NoAdjustment
    /\ GradeIdle
    /\ EngineIdle
    /\ RetryIdle
    /\ PagesIdle
    /\ RecordIdle
    /\ MasteryIdle
    /\ ValidateIdle
    /\ CoordIdle
    /\ ClientIdle
    /\ ExtractIdle
    /\ RepairIdle
    /\ HomeIdle
    /\ FeedbackUIIdle
    /\ ProgressPageIdle
    /\ QuizIdle
    /\ CourseIdle

AdjustLevels ==
    /\ ~AdjDone
    /\ adj_result' = [updated_difficulty |-> calculate_new_difficulty(adj_difficulty, adj_score),
                      next_bloom_level |-> calculate_new_bloom_level(adj_bloom, adj_score, adj_passed)]
    /\ UNCHANGED <<adj_difficulty, adj_bloom, adj_score, adj_passed>>
    /\ UNCHANGED <<gradeVars, engineVars, retryVars, pageVars, recordVars, masteryVars, validateVars, coordVars, clientVars, extractVars, repairVars, homeVars, feedbackVars, progressVars, quizVars, courseVars>>

NextLevels == AdjustLevels

SpecLevels == InitLevels /\ [][NextLevels]_vars

(***************************************************************************)
(* Grading on its own: every valid quiz of up to MaxQuestions questions    *)
(* and every submitted dict over its ids and one foreign id.               *)
(***************************************************************************)
InitGrade ==
    /\ AdjIdle
    /\ \E n \in 1..MaxQuestions :
          /\ g_questions \in ValidQuizzes(n)
          /\ g_answers \in Dicts(QuizIds(g_questions) \cup {UnknownId}, AnswerStrings)
    /\ g_result = NotGraded
    /\ EngineIdle
    /\ RetryIdle
    /\ PagesIdle
    /\ RecordIdle
    /\ MasteryIdle
    /\ ValidateIdle
    /\ CoordIdle
    /\ ClientIdle
    /\ ExtractIdle
    /\ RepairIdle
    /\ HomeIdle
    /\ FeedbackUIIdle
    /\ ProgressPageIdle
    /\ QuizIdle
    /\ CourseIdle

GradeSubmission ==
    /\ ~Graded
    /\ LET g == grade_quiz(g_questions, g_answers) IN
       g_result' = [score |-> g.score,
                    correct_count |-> g.correct_count,
                    total_questions |-> g.total,
                    passed |-> is_passed(g.score),
                    feedback |-> g.feedback]
    /\ UNCHANGED <<g_questions, g_answers>>
    /\ UNCHANGED <<adjVars, engineVars, retryVars, pageVars, recordVars, masteryVars, validateVars, coordVars, clientVars, extractVars, repairVars, homeVars, feedbackVars, progressVars, quizVars, courseVars>>

NextGrade == GradeSubmission

SpecGrade == InitGrade /\ [][NextGrade]_vars

(***************************************************************************)
(* The assessment engine: POST /submit-quiz requests handled by            *)
(* process_quiz_submission, up to two at a time.                           *)
(***************************************************************************)
Init ==
    /\ AdjIdle
    /\ GradeIdle
    /\ EngineIdle
    /\ RetryIdle
    /\ PagesIdle
    /\ RecordIdle
    /\ MasteryIdle
    /\ ValidateIdle
    /\ CoordIdle
    /\ ClientIdle
    /\ ExtractIdle
    /\ RepairIdle
    /\ HomeIdle
    /\ FeedbackUIIdle
    /\ ProgressPageIdle
    /\ QuizIdle
    /\ CourseIdle

\* a POST /submit-quiz arrives for worker w
ReceiveSubmission(w) ==
    /\ pc[w] \in {"idle", "done"}
    /\ submitted < MaxSubmissions
    /\ \E u \in Users, l \in Lessons :
          \E answers \in Submissions(l) :
             req' = [req EXCEPT ![w] = [user |-> u, lesson |-> l, answers |-> answers]]
    /\ pc' = [pc EXCEPT ![w] = "waiting"]
    /\ result' = [result EXCEPT ![w] = NoResult]
    /\ submitted' = submitted + 1
    /\ UNCHANGED <<progress, locks, snap, applied>>
    /\ UNCHANGED <<adjVars, gradeVars, retryVars, pageVars, recordVars, masteryVars, validateVars, coordVars, clientVars, extractVars, repairVars, homeVars, feedbackVars, progressVars, quizVars, courseVars>>

\* step 1: the submission is serialized and the progress file is loaded
LoadProgress(w) ==
    /\ pc[w] = "waiting"
    /\ LockKey(req[w].user, req[w].lesson) \notin locks
    /\ locks' = locks \cup {LockKey(req[w].user, req[w].lesson)}
    /\ snap' = [snap EXCEPT ![w] = progress[req[w].user]]
    /\ pc' = [pc EXCEPT ![w] = "loaded"]
    /\ UNCHANGED <<progress, req, result, submitted, applied>>
    /\ UNCHANGED <<adjVars, gradeVars, retryVars, pageVars, recordVars, masteryVars, validateVars, coordVars, clientVars, extractVars, repairVars, homeVars, feedbackVars, progressVars, quizVars, courseVars>>

\* steps 2-5: grade, adjust, write the file back, answer
SaveProgress(w) ==
    /\ pc[w] = "loaded"
    /\ LET u == req[w].user
           l == req[w].lesson
           g == grade_quiz(Quiz(l), req[w].answers)
           passed == is_passed(g.score)
           rec == Get(snap[w], l, new_lesson_progress(l))
           new == update_lesson_progress(rec, g.score, passed)
       IN /\ progress' = [progress EXCEPT ![u] = Put(snap[w], l, new)]
          /\ result' = [result EXCEPT ![w] =
                           [status |-> 200,
                            score |-> g.score,
                            correct_count |-> g.correct_count,
                            total_questions |-> g.total,
                            passed |-> passed,
                            needs_feedback |-> needs_feedback(g.correct_count, g.total),
                            updated_difficulty |-> new.current_difficulty,
                            current_bloom_level |-> rec.current_bloom_level,
                            next_bloom_level |-> new.current_bloom_level]]
          /\ applied' = [applied EXCEPT ![u][l] = Append(@, g.score)]
          /\ locks' = locks \ {LockKey(u, l)}
    /\ pc' = [pc EXCEPT ![w] = "done"]
    /\ snap' = [snap EXCEPT ![w] = <<>>]
    /\ UNCHANGED <<req, submitted>>
    /\ UNCHANGED <<adjVars, gradeVars, retryVars, pageVars, recordVars, masteryVars, validateVars, coordVars, clientVars, extractVars, repairVars, homeVars, feedbackVars, progressVars, quizVars, courseVars>>

Next ==
    \E w \in Workers :
        \/ ReceiveSubmission(w)
        \/ LoadProgress(w)
        \/ SaveProgress(w)

Spec == Init /\ [][Next]_vars

(***************************************************************************)
(* One invocation of call_llm_with_retry.  The loop runs between LLM       *)
(* calls; each call ends with a response or a failure.                     *)
(***************************************************************************)
InitRetry ==
    /\ AdjIdle
    /\ GradeIdle
    /\ EngineIdle
    /\ RetryIdle
    /\ PagesIdle
    /\ RecordIdle
    /\ MasteryIdle
    /\ ValidateIdle
    /\ CoordIdle
    /\ ClientIdle
    /\ ExtractIdle
    /\ RepairIdle
    /\ HomeIdle
    /\ FeedbackUIIdle
    /\ ProgressPageIdle
    /\ QuizIdle
    /\ CourseIdle

\* the first attempt is issued
StartGeneration ==
    /\ r_pc = "idle"
    /\ MoreAttempts(r_calls)
    /\ r_calls' = r_calls + 1
    /\ r_pc' = "awaiting"
    /\ UNCHANGED <<r_outcomes, r_last_raw, r_return>>
    /\ UNCHANGED <<adjVars, gradeVars, engineVars, pageVars, recordVars, masteryVars, validateVars, coordVars, clientVars, extractVars, repairVars, homeVars, feedbackVars, progressVars, quizVars, courseVars>>

\* the failed attempt is followed by the next call, or by giving up
AfterFailedAttempt(last_raw) ==
    IF MoreAttempts(r_calls)
    THEN /\ r_calls' = r_calls + 1
         /\ r_pc' = "awaiting"
         /\ r_return' = r_return
    ELSE /\ r_calls' = r_calls
         /\ r_pc' = "returned"
         /\ r_return' = GenerationExhausted(last_raw)

\* the LLM answered; validate_json and the validator judge the text
ReceiveResponse ==
    /\ r_pc = "awaiting"
    /\ \E raw \in RawTexts, kind \in ResponseKinds :
          /\ r_outcomes' = Append(r_outcomes, [kind |-> kind, raw |-> raw])
          /\ r_last_raw' = raw
          /\ IF kind = "valid"
             THEN /\ r_return' = Success(raw)
                  /\ r_pc' = "returned"
                  /\ r_calls' = r_calls
             ELSE AfterFailedAttempt(raw)
    /\ UNCHANGED <<adjVars, gradeVars, engineVars, pageVars, recordVars, masteryVars, validateVars, coordVars, clientVars, extractVars, repairVars, homeVars, feedbackVars, progressVars, quizVars, courseVars>>

\* the call failed without a response
CallFailed ==
    /\ r_pc = "awaiting"
    /\ \E failure \in TransportFailures :
          /\ r_outcomes' = Append(r_outcomes, [kind |-> failure, raw |-> None])
          /\ r_last_raw' = r_last_raw
          /\ IF is_retried(failure)
             THEN AfterFailedAttempt(r_last_raw)
             ELSE /\ r_return' = Raised(failure)
                  /\ r_pc' = "returned"
                  /\ r_calls' = r_calls
    /\ UNCHANGED <<adjVars, gradeVars, engineVars, pageVars, recordVars, masteryVars, validateVars, coordVars, clientVars, extractVars, repairVars, homeVars, feedbackVars, progressVars, quizVars, courseVars>>

NextRetry ==
    \/ StartGeneration
    \/ ReceiveResponse
    \/ CallFailed

SpecRetry == InitRetry /\ [][NextRetry]_vars

(***************************************************************************)
(* Specification SpecPages: the pages of the tabs and the stored course.   *)
(***************************************************************************)
InitPages ==
    /\ AdjIdle
    /\ GradeIdle
    /\ EngineIdle
    /\ RetryIdle
    /\ course = InitialCourse
    /\ page \in [Tabs -> {Mounted("lesson"), Mounted("quiz")}]
    /\ version = 0
    /\ regenerations = 0
    /\ RecordIdle
    /\ MasteryIdle
    /\ ValidateIdle
    /\ CoordIdle
    /\ ClientIdle
    /\ ExtractIdle
    /\ RepairIdle
    /\ HomeIdle
    /\ FeedbackUIIdle
    /\ ProgressPageIdle
    /\ QuizIdle
    /\ CourseIdle

OtherVars == <<adjVars, gradeVars, engineVars, retryVars, recordVars, masteryVars, validateVars, coordVars, clientVars, extractVars, repairVars, homeVars, feedbackVars, progressVars, quizVars, courseVars>>

Outcomes == {"ok", "error"}

SlotIndex(lessonId) ==
    CHOOSE i \in 1..Len(course) : course[i].lesson_id = lessonId

HasResult(p) == p.result # NoQuizResult

\* LessonPage renders the lesson (and its FeedbackPanel)
LessonShown(p) ==
    /\ p.kind = "lesson"
    /\ ~p.isLoading
    /\ ~p.error
    /\ p.lesson # NoLesson

\* QuizPage is past the loading overlay and the error view
QuizShown(p) ==
    /\ p.kind = "quiz"
    /\ ~(p.isLoading \/ p.isRegenerating \/ p.isRetaking)
    /\ ~p.error
    /\ p.quiz # <<>>

\* a plausible slip: the prompt rendered for every result
FeedbackPromptShownAlways(p) == p.showFeedbackPrompt

\* the result view renders the feedback prompt
FeedbackPromptShown(p) == p.result.needs_feedback /\ p.showFeedbackPrompt

\* resetQuizState
resetQuizState(p) ==
    [p EXCEPT !.result = NoQuizResult, !.showFeedbackPrompt = TRUE]

\* LessonPage.loadData resumes after getCourse / getProgress; when it was
\* called by handleRegenerate, that handler's finally runs after it
LoadDataDone(t) ==
    /\ page[t].kind = "lesson"
    /\ page[t].pending = "load"
    /\ \E outcome \in Outcomes :
         page' = [page EXCEPT ![t] =
            [@ EXCEPT !.lesson = IF outcome = "ok"
                                 THEN FindLesson(course, ViewedLesson)
                                 ELSE @,
                      !.error = IF outcome = "ok" THEN @ ELSE TRUE,
                      !.isLoading = FALSE,
                      !.isRegenerating = FALSE,
                      !.pending = None]]
    /\ UNCHANGED <<course, version, regenerations, OtherVars>>

\* FeedbackPanel's submit button (disabled while isRegenerating) calls
\* LessonPage.handleRegenerate, which awaits submitFeedback
HandleRegenerate(t) ==
    /\ LessonShown(page[t])
    /\ ~page[t].isRegenerating
    /\ regenerations < MaxRegenerations
    /\ page' = [page EXCEPT ![t] =
            [@ EXCEPT !.isRegenerating = TRUE, !.pending = "feedback"]]
    /\ regenerations' = regenerations + 1
    /\ UNCHANGED <<course, version, OtherVars>>

\* POST /feedback completes: the server replaces the lesson's content and
\* handleRegenerate goes on to loadData; on an error it only logs
FeedbackDone(t) ==
    /\ page[t].pending = "feedback"
    /\ \/ /\ version' = version + 1
          /\ course' = [course EXCEPT ![SlotIndex(ViewedLesson)] =
                            regenerated_lesson(@, version')]
          /\ page' = [page EXCEPT ![t] =
                [@ EXCEPT !.isLoading = TRUE,
                          !.pending = "load",
                          !.regenerated = version']]
       \/ /\ page' = [page EXCEPT ![t] =
                [@ EXCEPT !.isRegenerating = FALSE, !.pending = None]]
          /\ UNCHANGED <<course, version>>
    /\ UNCHANGED <<regenerations, OtherVars>>

\* QuizPage.loadQuiz resumes after getQuiz / getCourse; when it was the
\* fallback of handleRetake, that handler's finally runs after it
LoadQuizDone(t) ==
    /\ page[t].kind = "quiz"
    /\ page[t].pending = "load"
    /\ \E outcome \in Outcomes :
         page' = [page EXCEPT ![t] =
            [@ EXCEPT !.quiz = IF outcome = "ok"
                               THEN <<course[SlotIndex(ViewedLesson)].quiz>>
                               ELSE @,
                      !.lesson = IF outcome = "ok"
                                 THEN FindLesson(course, ViewedLesson)
                                 ELSE @,
                      !.error = (outcome # "ok"),
                      !.isLoading = FALSE,
                      !.isRetaking = FALSE,
                      !.pending = None]]
    /\ UNCHANGED <<course, version, regenerations, OtherVars>>

\* QuizPage.handleSubmit up to its await of submitQuiz
HandleSubmit(t) ==
    /\ QuizShown(page[t])
    /\ ~HasResult(page[t])
    /\ ~page[t].isSubmitting
    /\ page' = [page EXCEPT ![t] =
            [@ EXCEPT !.isSubmitting = TRUE, !.pending = "submit"]]
    /\ UNCHANGED <<course, version, regenerations, OtherVars>>

\* submitQuiz resolves with the result, or rejects
SubmitDone(t) ==
    /\ page[t].pending = "submit"
    /\ \/ \E n \in QuizSizes : \E c \in 0..n :
            LET g == grade_quiz(QuizOfSize(n), FirstCorrect(c)) IN
            page' = [page EXCEPT ![t] =
                  [@ EXCEPT !.result = [score |-> g.score,
                                        correct_count |-> g.correct_count,
                                        total_questions |-> g.total,
                                        passed |-> is_passed(g.score),
                                        needs_feedback |->
                                            needs_feedback(g.correct_count, g.total)],
                            !.isSubmitting = FALSE,
                            !.pending = None]]
       \/ page' = [page EXCEPT ![t] =
              [@ EXCEPT !.error = TRUE,
                        !.isSubmitting = FALSE,
                        !.pending = None]]
    /\ UNCHANGED <<course, version, regenerations, OtherVars>>

\* the result view's "Try Again" button (disabled while isRetaking)
HandleRetake(t) ==
    /\ QuizShown(page[t])
    /\ HasResult(page[t])
    /\ ~page[t].isRetaking
    /\ regenerations < MaxRegenerations
    /\ page' = [page EXCEPT ![t] =
            [resetQuizState(@) EXCEPT !.isRetaking = TRUE,
                                      !.pending = "retake"]]
    /\ regenerations' = regenerations + 1
    /\ UNCHANGED <<course, version, OtherVars>>

\* POST /quiz/retake completes: the server replaces the lesson's quiz; on
\* an error the page falls back to loadQuiz
RetakeDone(t) ==
    /\ page[t].pending = "retake"
    /\ \/ /\ version' = version + 1
          /\ course' = [course EXCEPT ![SlotIndex(ViewedLesson)] =
                            regenerated_quiz(@, version')]
          /\ page' = [page EXCEPT ![t] =
                [@ EXCEPT !.quiz = <<version'>>,
                          !.isRetaking = FALSE,
                          !.pending = None]]
       \/ /\ page' = [page EXCEPT ![t] =
                [resetQuizState(@) EXCEPT !.isLoading = TRUE,
                                          !.error = FALSE,
                                          !.pending = "load"]]
          /\ UNCHANGED <<course, version>>
    /\ UNCHANGED <<regenerations, OtherVars>>

\* the feedback prompt's "Give me easier questions" button (disabled while
\* isRegenerating), shown when result.needs_feedback && showFeedbackPrompt
HandleRegenerateEasier(t) ==
    /\ QuizShown(page[t])
    /\ HasResult(page[t])
    /\ FeedbackPromptShown(page[t])
    /\ ~page[t].isRegenerating
    /\ regenerations < MaxRegenerations
    /\ page' = [page EXCEPT ![t] =
            [resetQuizState(@) EXCEPT !.isRegenerating = TRUE,
                                      !.pending = "easier"]]
    /\ regenerations' = regenerations + 1
    /\ UNCHANGED <<course, version, OtherVars>>

\* POST /quiz/regenerate-easier completes: the server replaces the lesson's
\* quiz; on an error the page shows the error
EasierDone(t) ==
    /\ page[t].pending = "easier"
    /\ \/ /\ version' = version + 1
          /\ course' = [course EXCEPT ![SlotIndex(ViewedLesson)] =
                            regenerated_quiz(@, version')]
          /\ page' = [page EXCEPT ![t] =
                [@ EXCEPT !.quiz = <<version'>>,
                          !.isRegenerating = FALSE,
                          !.pending = None]]
       \/ /\ page' = [page EXCEPT ![t] =
                [@ EXCEPT !.error = TRUE,
                          !.isRegenerating = FALSE,
                          !.pending = None]]
          /\ UNCHANGED <<course, version>>
    /\ UNCHANGED <<regenerations, OtherVars>>

\* handleShowExplanations
HandleShowExplanations(t) ==
    /\ QuizShown(page[t])
    /\ HasResult(page[t])
    /\ FeedbackPromptShown(page[t])
    /\ page' = [page EXCEPT ![t] = [@ EXCEPT !.showFeedbackPrompt = FALSE]]
    /\ UNCHANGED <<course, version, regenerations, OtherVars>>

NextPages ==
    \E t \in Tabs :
        \/ LoadDataDone(t)
        \/ HandleRegenerate(t)
        \/ FeedbackDone(t)
        \/ LoadQuizDone(t)
        \/ HandleSubmit(t)
        \/ SubmitDone(t)
        \/ HandleRetake(t)
        \/ RetakeDone(t)
        \/ HandleRegenerateEasier(t)
        \/ EasierDone(t)
        \/ HandleShowExplanations(t)

SpecPages == InitPages /\ [][NextPages]_vars

(***************************************************************************)
(* Specification SpecRecord: graded attempts on one LessonProgress, from a *)
(* lesson of any Bloom level.                                              *)
(***************************************************************************)
InitRecord ==
    /\ AdjIdle
    /\ GradeIdle
    /\ EngineIdle
    /\ RetryIdle
    /\ PagesIdle
    /\ \E b \in BloomLevels :
          record = [new_lesson_progress("l1") EXCEPT !.current_bloom_level = b]
    /\ before = record
    /\ attempt = NoAttempt
    /\ MasteryIdle
    /\ ValidateIdle
    /\ CoordIdle
    /\ ClientIdle
    /\ ExtractIdle
    /\ RepairIdle
    /\ HomeIdle
    /\ FeedbackUIIdle
    /\ ProgressPageIdle
    /\ QuizIdle
    /\ CourseIdle

\* steps 2-4 of process_quiz_submission on the record
GradedAttempt ==
    /\ record.quiz_attempts < MaxAttempts
    /\ \E n \in QuizSizes : \E c \in 0..n :
          LET g == grade_quiz(QuizOfSize(n), FirstCorrect(c)) IN
             /\ record' = update_lesson_progress(record, g.score, is_passed(g.score))
             /\ attempt' = [score |-> g.score,
                            correct_count |-> g.correct_count,
                            total_questions |-> g.total]
    /\ before' = record
    /\ UNCHANGED <<adjVars, gradeVars, engineVars, retryVars, pageVars, masteryVars, validateVars, coordVars, clientVars, extractVars, repairVars, homeVars, feedbackVars, progressVars, quizVars, courseVars>>

NextRecord == GradedAttempt

SpecRecord == InitRecord /\ [][NextRecord]_vars

(***************************************************************************)
(* Specification SpecMastery: calculate_mastery_level on every best score  *)
(* a quiz can give (whole percents and thirds) and every attempt count.    *)
(***************************************************************************)
InitMastery ==
    /\ AdjIdle
    /\ GradeIdle
    /\ EngineIdle
    /\ RetryIdle
    /\ PagesIdle
    /\ RecordIdle
    /\ m_best \in {Frac(s, 1) : s \in 0..100} \cup {Frac(100, 3), Frac(200, 3)}
    /\ m_attempts \in 0..MaxAttempts
    /\ m_level = NotClassified
    /\ ValidateIdle
    /\ CoordIdle
    /\ ClientIdle
    /\ ExtractIdle
    /\ RepairIdle
    /\ HomeIdle
    /\ FeedbackUIIdle
    /\ ProgressPageIdle
    /\ QuizIdle
    /\ CourseIdle

ClassifyMastery ==
    /\ m_level = NotClassified
    /\ m_level' = calculate_mastery_level(m_best, m_attempts)
    /\ UNCHANGED <<m_best, m_attempts>>
    /\ UNCHANGED <<adjVars, gradeVars, engineVars, retryVars, pageVars, recordVars, validateVars, coordVars, clientVars, extractVars, repairVars, homeVars, feedbackVars, progressVars, quizVars, courseVars>>

NextMastery == ClassifyMastery

SpecMastery == InitMastery /\ [][NextMastery]_vars

(***************************************************************************)
(* Specification SpecValidate: one quiz generation through                 *)
(* call_llm_with_retry, with the candidate each attempt yields.            *)
(***************************************************************************)
InitValidate ==
    /\ AdjIdle
    /\ GradeIdle
    /\ EngineIdle
    /\ RetryIdle
    /\ PagesIdle
    /\ RecordIdle
    /\ MasteryIdle
    /\ ValidateIdle
    /\ CoordIdle
    /\ ClientIdle
    /\ ExtractIdle
    /\ RepairIdle
    /\ HomeIdle
    /\ FeedbackUIIdle
    /\ ProgressPageIdle
    /\ QuizIdle
    /\ CourseIdle

ValidateOthers ==
    <<adjVars, gradeVars, engineVars, retryVars, pageVars, recordVars, masteryVars,
      coordVars, clientVars, extractVars, repairVars, homeVars, feedbackVars, progressVars, quizVars, courseVars>>

\* an attempt: the LLM is called
CallGenerator ==
    /\ v_pc \in {"idle", "retry"}
    /\ MoreAttempts(v_attempt)
    /\ v_attempt' = v_attempt + 1
    /\ v_pc' = "responded"
    /\ v_stage' = None
    /\ v_candidate' = <<>>
    /\ UNCHANGED <<v_return, ValidateOthers>>

\* the attempt failed; another follows or the attempts are used up
AttemptFailed ==
    IF MoreAttempts(v_attempt)
    THEN v_pc' = "retry" /\ v_return' = v_return
    ELSE v_pc' = "returned" /\ v_return' = GenerationExhausted(None)

\* validate_json parses or repairs the response into a candidate
RepairSucceeds ==
    /\ v_pc = "responded"
    /\ \E stage \in RepairStages, candidate \in Candidates :
          /\ v_stage' = stage
          /\ v_candidate' = candidate
    /\ v_pc' = "parsed"
    /\ UNCHANGED <<v_attempt, v_return, ValidateOthers>>

\* no stage of validate_json gets a value out of the response
RepairFails ==
    /\ v_pc = "responded"
    /\ AttemptFailed
    /\ UNCHANGED <<v_attempt, v_stage, v_candidate, ValidateOthers>>

\* the validator judges the candidate
ValidateCandidate ==
    /\ v_pc = "parsed"
    /\ LET v == validate_quiz(v_candidate, v_stage) IN
       IF v.accepted
       THEN /\ v_pc' = "returned"
            /\ v_return' = [kind |-> "success", value |-> v.value, raised |-> FALSE]
       ELSE AttemptFailed
    /\ UNCHANGED <<v_attempt, v_stage, v_candidate, ValidateOthers>>

NextValidate ==
    \/ CallGenerator
    \/ RepairSucceeds
    \/ RepairFails
    \/ ValidateCandidate

SpecValidate == InitValidate /\ [][NextValidate]_vars

(***************************************************************************)
(* Specification SpecCoordinator: any MaxSteps requests of one learner on  *)
(* one lesson.                                                             *)
(***************************************************************************)
InitCoordinator ==
    /\ AdjIdle
    /\ GradeIdle
    /\ EngineIdle
    /\ RetryIdle
    /\ PagesIdle
    /\ RecordIdle
    /\ MasteryIdle
    /\ ValidateIdle
    /\ CoordIdle
    /\ ClientIdle
    /\ ExtractIdle
    /\ RepairIdle
    /\ HomeIdle
    /\ FeedbackUIIdle
    /\ ProgressPageIdle
    /\ QuizIdle
    /\ CourseIdle

CoordOthers ==
    <<adjVars, gradeVars, engineVars, retryVars, pageVars, recordVars,
      masteryVars, validateVars, clientVars, extractVars, repairVars, homeVars, feedbackVars, progressVars, quizVars, courseVars>>

\* the learner's record for the lesson, or what it would start as
CurrentRecord == Get(c_store, CoordLesson, new_lesson_progress(CoordLesson))

Step(op, tag, status, generation) ==
    /\ c_steps < MaxSteps
    /\ c_steps' = c_steps + 1
    /\ c_before' = c_store
    /\ c_last' = [op |-> op, tag |-> tag, status |-> status, generation |-> generation]

\* POST /submit-quiz: process_quiz_submission
SubmitQuiz ==
    /\ \E c \in 0..3 :
          LET g == grade_quiz(QuizOfSize(3), FirstCorrect(c)) IN
          c_store' = Put(c_store, CoordLesson,
                         update_lesson_progress(CurrentRecord, g.score, is_passed(g.score)))
    /\ c_prev_tier' = CurrentRecord.current_difficulty
    /\ Step("submit", None, 200, NoGeneration)
    /\ UNCHANGED CoordOthers

\* POST /feedback: the lesson content is regenerated for an accepted type
SubmitFeedback ==
    /\ \E tag \in SentTags :
          LET type == accepted_feedback_type(tag) IN
          IF type # <<>>
          THEN /\ Step("feedback", tag, 200,
                       LessonGeneration(CurrentRecord.current_bloom_level,
                                        CurrentRecord.current_difficulty, type[1]))
               /\ c_store' = store_after_generation(c_store, CoordLesson,
                                                    CurrentRecord.current_difficulty)
          ELSE /\ Step("feedback", tag, 422, NoGeneration)
               /\ c_store' = c_store
    /\ UNCHANGED <<c_prev_tier, CoordOthers>>

\* POST /quiz/retake: generate_retake_quiz at the record's difficulty
RetakeQuiz ==
    /\ Step("retake", None, 200,
            QuizGeneration(CurrentRecord.current_bloom_level,
                           CurrentRecord.current_difficulty))
    /\ c_store' = store_after_generation(c_store, CoordLesson,
                                         CurrentRecord.current_difficulty)
    /\ UNCHANGED <<c_prev_tier, CoordOthers>>

\* POST /quiz/regenerate-easier: a quiz one difficulty lower
RegenerateEasier ==
    /\ Step("easier", "too_hard", 200,
            QuizGeneration(CurrentRecord.current_bloom_level,
                           lower_difficulty(CurrentRecord.current_difficulty)))
    /\ c_store' = store_after_generation(c_store, CoordLesson,
                                         lower_difficulty(CurrentRecord.current_difficulty))
    /\ UNCHANGED <<c_prev_tier, CoordOthers>>

\* POST /progress/lesson-access: the position in the course is recorded
TrackLessonAccess ==
    /\ Step("access", None, 200, NoGeneration)
    /\ c_store' = c_store
    /\ UNCHANGED <<c_prev_tier, CoordOthers>>

NextCoordinator ==
    \/ SubmitQuiz
    \/ SubmitFeedback
    \/ RetakeQuiz
    \/ RegenerateEasier
    \/ TrackLessonAccess

SpecCoordinator == InitCoordinator /\ [][NextCoordinator]_vars

(***************************************************************************)
(* Specification SpecClient: one invocation of call_llm_with_retry against *)
(* a generator that may answer late, badly or never.  SpecClientLive adds  *)
(* what the scheduling guarantees: the invocation runs, time passes and a  *)
(* due timeout fires; the generator is not obliged to answer.              *)
(***************************************************************************)
InitClient ==
    /\ AdjIdle
    /\ GradeIdle
    /\ EngineIdle
    /\ RetryIdle
    /\ PagesIdle
    /\ RecordIdle
    /\ MasteryIdle
    /\ ValidateIdle
    /\ CoordIdle
    /\ ClientIdle
    /\ ExtractIdle
    /\ RepairIdle
    /\ HomeIdle
    /\ FeedbackUIIdle
    /\ ProgressPageIdle
    /\ QuizIdle
    /\ CourseIdle

ClientOthers ==
    <<adjVars, gradeVars, engineVars, retryVars, pageVars, recordVars,
      masteryVars, validateVars, coordVars, extractVars, repairVars, homeVars, feedbackVars, progressVars, quizVars, courseVars>>

\* the next attempt's call is sent
SendCall ==
    /\ k_pc \in {"idle", "retry"}
    /\ MoreAttempts(k_calls)
    /\ k_calls' = k_calls + 1
    /\ k_elapsed' = 0
    /\ k_pc' = "calling"
    /\ UNCHANGED <<k_outcomes, k_return, ClientOthers>>

\* the attempt failed; another follows or the attempts are used up
CallAttemptFailed ==
    IF MoreAttempts(k_calls)
    THEN k_pc' = "retry" /\ k_return' = k_return
    ELSE k_pc' = "returned" /\ k_return' = GenerationExhausted(None)

\* time passes while the call is outstanding
Tick ==
    /\ k_pc = "calling"
    /\ ~deadline_reached(k_elapsed)
    /\ k_elapsed < CallTimeout
    /\ k_elapsed' = k_elapsed + 1
    /\ UNCHANGED <<k_pc, k_calls, k_outcomes, k_return, ClientOthers>>

\* the generator answers before the timeout
GeneratorAnswers ==
    /\ k_pc = "calling"
    /\ ~deadline_reached(k_elapsed)
    /\ \E kind \in ResponseKinds :
          /\ k_outcomes' = Append(k_outcomes, kind)
          /\ IF kind = "valid"
             THEN k_pc' = "returned" /\ k_return' = Success("raw_a")
             ELSE CallAttemptFailed
    /\ UNCHANGED <<k_calls, k_elapsed, ClientOthers>>

\* the timeout ends the call as a transport failure
CallTimesOut ==
    /\ k_pc = "calling"
    /\ deadline_reached(k_elapsed)
    /\ k_outcomes' = Append(k_outcomes, "timeout")
    /\ CallAttemptFailed
    /\ UNCHANGED <<k_calls, k_elapsed, ClientOthers>>

NextClient ==
    \/ SendCall
    \/ Tick
    \/ GeneratorAnswers
    \/ CallTimesOut

SpecClient == InitClient /\ [][NextClient]_vars

SpecClientLive ==
    /\ SpecClient
    /\ WF_vars(SendCall)
    /\ WF_vars(Tick)
    /\ WF_vars(CallTimesOut)

(***************************************************************************)
(* Specification SpecExtract: the extraction stage on every embedded value *)
(* between every leading and trailing prose of up to MaxProse characters.  *)
(***************************************************************************)
InitExtract ==
    /\ AdjIdle
    /\ GradeIdle
    /\ EngineIdle
    /\ RetryIdle
    /\ PagesIdle
    /\ RecordIdle
    /\ MasteryIdle
    /\ ValidateIdle
    /\ CoordIdle
    /\ ClientIdle
    /\ x_lead \in Prose
    /\ x_value \in EmbeddedValues
    /\ x_trail \in Prose
    /\ x_result = NotExtracted
    /\ RepairIdle
    /\ HomeIdle
    /\ FeedbackUIIdle
    /\ ProgressPageIdle
    /\ QuizIdle
    /\ CourseIdle

ExtractOthers ==
    <<adjVars, gradeVars, engineVars, retryVars, pageVars, recordVars,
      masteryVars, validateVars, coordVars, clientVars, repairVars, homeVars, feedbackVars, progressVars, quizVars, courseVars>>

ExtractStage ==
    /\ ~x_result.done
    /\ x_result' = extract_json(x_lead \o x_value \o x_trail)
    /\ UNCHANGED <<x_lead, x_value, x_trail, ExtractOthers>>

NextExtract == ExtractStage

SpecExtract == InitExtract /\ [][NextExtract]_vars

(***************************************************************************)
(* Specification SpecRepair: validate_json on every raw response, one      *)
(* stage per step.                                                         *)
(***************************************************************************)
InitRepair ==
    /\ AdjIdle
    /\ GradeIdle
    /\ EngineIdle
    /\ RetryIdle
    /\ PagesIdle
    /\ RecordIdle
    /\ MasteryIdle
    /\ ValidateIdle
    /\ CoordIdle
    /\ ClientIdle
    /\ ExtractIdle
    /\ t_profile \in [Stages -> StageOutcomes]
    /\ t_next = 1
    /\ t_tried = <<>>
    /\ t_result = NotRepaired
    /\ HomeIdle
    /\ FeedbackUIIdle
    /\ ProgressPageIdle
    /\ QuizIdle
    /\ CourseIdle

RepairOthers ==
    <<adjVars, gradeVars, engineVars, retryVars, pageVars, recordVars,
      masteryVars, validateVars, coordVars, clientVars, extractVars, homeVars, feedbackVars, progressVars, quizVars, courseVars>>

\* the next stage is tried; its decode is returned, or the next one follows
RunStage ==
    /\ ~t_result.done
    /\ t_next <= Len(STAGE_ORDER)
    /\ LET stage == STAGE_ORDER[t_next]
           outcome == IF stage_input(t_next) = "raw" THEN t_profile[stage] ELSE "fail"
       IN /\ t_tried' = Append(t_tried, [stage |-> stage, input |-> stage_input(t_next)])
          /\ t_result' = IF outcome # "fail"
                         THEN [done |-> TRUE, ok |-> TRUE, value |-> outcome, stage |-> stage]
                         ELSE IF t_next = Len(STAGE_ORDER) THEN RepairFailed
                         ELSE t_result
    /\ t_next' = t_next + 1
    /\ UNCHANGED <<t_profile, RepairOthers>>

NextRepair == RunStage

SpecRepair == InitRepair /\ [][NextRepair]_vars

(***************************************************************************)
(* SpecHome: the home page loads the progress list, the learner follows a  *)
(* resume entry or a course card, and comes back.                          *)
(***************************************************************************)
InitHome ==
    /\ AdjIdle
    /\ GradeIdle
    /\ EngineIdle
    /\ RetryIdle
    /\ PagesIdle
    /\ RecordIdle
    /\ MasteryIdle
    /\ ValidateIdle
    /\ CoordIdle
    /\ ClientIdle
    /\ ExtractIdle
    /\ RepairIdle
    /\ h_progressData = {}
    /\ h_location = <<>>
    /\ h_origin = "none"
    /\ FeedbackUIIdle
    /\ ProgressPageIdle
    /\ QuizIdle
    /\ CourseIdle

HomeOthers ==
    <<adjVars, gradeVars, engineVars, retryVars, pageVars, recordVars,
      masteryVars, validateVars, coordVars, clientVars, extractVars,
      repairVars, feedbackVars, progressVars, quizVars, courseVars>>

\* loadProgress: getAllProgress answered
LoadAllProgress ==
    /\ h_location = <<>>
    /\ \E data \in ProgressLists : h_progressData' = data
    /\ UNCHANGED <<h_location, h_origin>>
    /\ UNCHANGED HomeOthers

\* a click on a resume entry, which exists for the courses of the list
HandleContinue ==
    /\ h_location = <<>>
    /\ \E courseId \in Courses :
          /\ HasProgress(h_progressData, courseId)
          /\ h_location' = handleContinue(h_progressData, courseId)
    /\ h_origin' = "continue"
    /\ UNCHANGED h_progressData
    /\ UNCHANGED HomeOthers

\* the link of a course card
CourseCardLink ==
    /\ h_location = <<>>
    /\ \E courseId \in Courses : h_location' = <<"course", courseId>>
    /\ h_origin' = "card"
    /\ UNCHANGED h_progressData
    /\ UNCHANGED HomeOthers

\* back to "/": the home page mounts again with an empty list
BackHome ==
    /\ h_location # <<>>
    /\ h_location' = <<>>
    /\ h_progressData' = {}
    /\ h_origin' = "none"
    /\ UNCHANGED HomeOthers

NextHome == LoadAllProgress \/ HandleContinue \/ CourseCardLink \/ BackHome

SpecHome == InitHome /\ [][NextHome]_vars

(***************************************************************************)
(* SpecFeedbackUI: the learner opens the feedback panel or is shown one of *)
(* the two modals, picks options, and the picked value is handed on.       *)
(***************************************************************************)
InitFeedbackUI ==
    /\ AdjIdle
    /\ GradeIdle
    /\ EngineIdle
    /\ RetryIdle
    /\ PagesIdle
    /\ RecordIdle
    /\ MasteryIdle
    /\ ValidateIdle
    /\ CoordIdle
    /\ ClientIdle
    /\ ExtractIdle
    /\ RepairIdle
    /\ HomeIdle
    /\ fp_isOpen = FALSE
    /\ fp_selectedType = <<>>
    /\ fp_comments = ""
    /\ f_modal = "none"
    /\ f_emitted = <<>>
    /\ ProgressPageIdle
    /\ QuizIdle
    /\ CourseIdle

FeedbackUIOthers ==
    <<adjVars, gradeVars, engineVars, retryVars, pageVars, recordVars,
      masteryVars, validateVars, coordVars, clientVars, extractVars,
      repairVars, homeVars, progressVars, quizVars, courseVars>>

OpenPanel ==
    /\ ~fp_isOpen
    /\ fp_isOpen' = TRUE
    /\ UNCHANGED <<fp_selectedType, fp_comments, f_modal, f_emitted>>
    /\ UNCHANGED FeedbackUIOthers

\* the X and Cancel buttons
ClosePanel ==
    /\ fp_isOpen
    /\ fp_isOpen' = FALSE
    /\ UNCHANGED <<fp_selectedType, fp_comments, f_modal, f_emitted>>
    /\ UNCHANGED FeedbackUIOthers

SelectType ==
    /\ fp_isOpen
    /\ \E type \in feedbackOptions : fp_selectedType' = <<type>>
    /\ UNCHANGED <<fp_isOpen, fp_comments, f_modal, f_emitted>>
    /\ UNCHANGED FeedbackUIOthers

TypeComments ==
    /\ fp_isOpen
    /\ \E text \in CommentTexts : fp_comments' = text
    /\ UNCHANGED <<fp_isOpen, fp_selectedType, f_modal, f_emitted>>
    /\ UNCHANGED FeedbackUIOthers

\* FeedbackPanel.handleSubmit: the selected type goes to onRegenerate
PanelSubmit ==
    /\ fp_isOpen
    /\ fp_selectedType # <<>>
    /\ Len(f_emitted) < MaxEmitted
    /\ f_emitted' = Append(f_emitted,
                       [component |-> "FeedbackPanel",
                        value |-> fp_selectedType[1]])
    /\ fp_isOpen' = FALSE
    /\ fp_selectedType' = <<>>
    /\ fp_comments' = ""
    /\ UNCHANGED f_modal
    /\ UNCHANGED FeedbackUIOthers

\* the parent mounts one of the modals
ShowModal ==
    /\ f_modal = "none"
    /\ \E modal \in {"WrongAnswerFeedbackModal", "QuizFeedbackModal"} :
          f_modal' = modal
    /\ UNCHANGED <<fp_isOpen, fp_selectedType, fp_comments, f_emitted>>
    /\ UNCHANGED FeedbackUIOthers

\* WrongAnswerFeedbackModal.handleFeedbackSelect: onFeedback(option.id)
WrongAnswerSelect ==
    /\ f_modal = "WrongAnswerFeedbackModal"
    /\ Len(f_emitted) < MaxEmitted
    /\ \E id \in FEEDBACK_OPTIONS :
          f_emitted' = Append(f_emitted,
                          [component |-> "WrongAnswerFeedbackModal",
                           value |-> id])
    /\ f_modal' = "none"
    /\ UNCHANGED <<fp_isOpen, fp_selectedType, fp_comments>>
    /\ UNCHANGED FeedbackUIOthers

\* QuizFeedbackModal: onFeedback(option.value)
QuizFeedbackSelect ==
    /\ f_modal = "QuizFeedbackModal"
    /\ Len(f_emitted) < MaxEmitted
    /\ \E value \in quizFeedbackOptions :
          f_emitted' = Append(f_emitted,
                          [component |-> "QuizFeedbackModal",
                           value |-> value])
    /\ f_modal' = "none"
    /\ UNCHANGED <<fp_isOpen, fp_selectedType, fp_comments>>
    /\ UNCHANGED FeedbackUIOthers

\* onContinue / onSkip
DismissModal ==
    /\ f_modal # "none"
    /\ f_modal' = "none"
    /\ UNCHANGED <<fp_isOpen, fp_selectedType, fp_comments, f_emitted>>
    /\ UNCHANGED FeedbackUIOthers

NextFeedbackUI ==
    \/ OpenPanel
    \/ ClosePanel
    \/ SelectType
    \/ TypeComments
    \/ PanelSubmit
    \/ ShowModal
    \/ WrongAnswerSelect
    \/ QuizFeedbackSelect
    \/ DismissModal

SpecFeedbackUI == InitFeedbackUI /\ [][NextFeedbackUI]_vars

(***************************************************************************)
(* SpecProgressPage: the page loads the progress data and renders its      *)
(* statistics and one MasteryIndicator per lesson.                         *)
(***************************************************************************)
InitProgressPage ==
    /\ AdjIdle
    /\ GradeIdle
    /\ EngineIdle
    /\ RetryIdle
    /\ PagesIdle
    /\ RecordIdle
    /\ MasteryIdle
    /\ ValidateIdle
    /\ CoordIdle
    /\ ClientIdle
    /\ ExtractIdle
    /\ RepairIdle
    /\ HomeIdle
    /\ FeedbackUIIdle
    /\ pp_progress = <<>>
    /\ pp_isLoading = TRUE
    /\ pp_error = FALSE
    /\ pp_stats = <<>>
    /\ QuizIdle
    /\ CourseIdle

ProgressPageOthers ==
    <<adjVars, gradeVars, engineVars, retryVars, pageVars, recordVars,
      masteryVars, validateVars, coordVars, clientVars, extractVars,
      repairVars, homeVars, feedbackVars, quizVars, courseVars>>

\* loadData: getCourse and getProgress answered
ProgressLoaded ==
    /\ pp_isLoading
    /\ \E lessons \in ProgressData : pp_progress' = <<lessons>>
    /\ pp_isLoading' = FALSE
    /\ UNCHANGED <<pp_error, pp_stats>>
    /\ UNCHANGED ProgressPageOthers

\* loadData: one of the two calls failed
ProgressLoadFailed ==
    /\ pp_isLoading
    /\ pp_error' = TRUE
    /\ pp_isLoading' = FALSE
    /\ UNCHANGED <<pp_progress, pp_stats>>
    /\ UNCHANGED ProgressPageOthers

\* the render after the load
RenderStatistics ==
    /\ ~pp_isLoading
    /\ ~pp_error
    /\ pp_progress # <<>>
    /\ pp_stats = <<>>
    /\ LET lessons == pp_progress[1]
       IN  pp_stats' =
             << [completedLessons |-> CountCompleted(lessons, 1),
                 totalQuizAttempts |-> SumAttempts(lessons, 1),
                 avgScore |-> avgScore(lessons),
                 shownAverage |-> MathRound(avgScore(lessons)),
                 masteryCount |-> masteryCount(lessons),
                 indicators |-> [i \in 1..Len(lessons) |->
                                    MasteryIndicatorConfig(lessons[i].mastery)]] >>
    /\ UNCHANGED <<pp_progress, pp_isLoading, pp_error>>
    /\ UNCHANGED ProgressPageOthers

NextProgressPage == ProgressLoaded \/ ProgressLoadFailed \/ RenderStatistics

SpecProgressPage == InitProgressPage /\ [][NextProgressPage]_vars

(***************************************************************************)
(* SpecQuiz: one QuizPage from its mount on.  Each handler runs to its     *)
(* first await in one step; what follows the await is the step of the      *)
(* answer or of the failure.                                               *)
(***************************************************************************)
InitQuiz ==
    /\ AdjIdle
    /\ GradeIdle
    /\ EngineIdle
    /\ RetryIdle
    /\ PagesIdle
    /\ RecordIdle
    /\ MasteryIdle
    /\ ValidateIdle
    /\ CoordIdle
    /\ ClientIdle
    /\ ExtractIdle
    /\ RepairIdle
    /\ HomeIdle
    /\ FeedbackUIIdle
    /\ ProgressPageIdle
    /\ q_quiz = <<>>
    /\ q_answers = NoAnswers
    /\ q_result = <<>>
    /\ q_flags = [isLoading |-> TRUE, isSubmitting |-> FALSE,
                  isRetaking |-> FALSE, isRegenerating |-> FALSE,
                  error |-> FALSE, showFeedbackPrompt |-> TRUE]
    /\ q_pending = [NoRequests EXCEPT !.load = "pending"]
    /\ q_last = "loadQuiz"
    /\ CourseIdle

QuizOthers ==
    <<adjVars, gradeVars, engineVars, retryVars, pageVars, recordVars,
      masteryVars, validateVars, coordVars, clientVars, extractVars,
      repairVars, homeVars, feedbackVars, progressVars, courseVars>>

\* the three views the page returns before the questions
Overlay == q_flags.isLoading \/ q_flags.isRegenerating \/ q_flags.isRetaking

ErrorView == ~Overlay /\ (q_flags.error \/ q_quiz = <<>>)

ResultView == ~Overlay /\ ~ErrorView /\ q_result # <<>>

QuestionView == ~Overlay /\ ~ErrorView /\ q_result = <<>>

\* the flags after the finally of loadQuiz, and of handleRetake when the
\* load was its fallback
AfterLoad(flags) ==
    [flags EXCEPT !.isLoading = FALSE,
                  !.isRetaking = IF q_pending.retake = "fallback" THEN FALSE ELSE @]

\* loadQuiz: getQuiz and getCourse answered
QuizLoaded ==
    /\ q_pending.load = "pending"
    /\ q_quiz' = <<"stored">>
    /\ q_flags' = AfterLoad(q_flags)
    /\ q_pending' = [q_pending EXCEPT !.load = "idle", !.retake = "idle"]
    /\ q_last' = "loadQuiz answered"
    /\ UNCHANGED <<q_answers, q_result>>
    /\ UNCHANGED QuizOthers

\* loadQuiz: one of the two calls failed
QuizLoadFailed ==
    /\ q_pending.load = "pending"
    /\ q_flags' = AfterLoad([q_flags EXCEPT !.error = TRUE])
    /\ q_pending' = [q_pending EXCEPT !.load = "idle", !.retake = "idle"]
    /\ q_last' = "loadQuiz failed"
    /\ UNCHANGED <<q_quiz, q_answers, q_result>>
    /\ UNCHANGED QuizOthers

\* handleSelectAnswer, called with any question and option of the quiz held
QuizSelectAnswer ==
    /\ q_quiz # <<>>
    /\ \E questionId \in QuizQuestionIds, answer \in QuizOptions :
          q_answers' = handleSelectAnswer(q_result, q_answers, questionId, answer)
    /\ q_last' = "handleSelectAnswer"
    /\ UNCHANGED <<q_quiz, q_result, q_flags, q_pending>>
    /\ UNCHANGED QuizOthers

\* handleSubmit up to the await of submitQuiz
QuizHandleSubmit ==
    /\ QuestionView
    /\ ~q_flags.isSubmitting
    /\ q_flags' = [q_flags EXCEPT !.isSubmitting = TRUE]
    /\ q_pending' = [q_pending EXCEPT !.submit = "pending"]
    /\ q_last' = "handleSubmit"
    /\ UNCHANGED <<q_quiz, q_answers, q_result>>
    /\ UNCHANGED QuizOthers

\* submitQuiz answered: the result is set and, for a passed one,
\* markLessonCompleted is requested
QuizSubmitAnswered ==
    /\ q_pending.submit = "pending"
    /\ \E resultData \in QuizResults :
          /\ q_result' = <<resultData>>
          /\ IF marks_completed(resultData)
             THEN /\ q_pending' = [q_pending EXCEPT !.submit = "idle", !.mark = "pending"]
                  /\ q_flags' = q_flags
             ELSE /\ q_pending' = [q_pending EXCEPT !.submit = "idle"]
                  /\ q_flags' = [q_flags EXCEPT !.isSubmitting = FALSE]
    /\ q_last' = "submitQuiz answered"
    /\ UNCHANGED <<q_quiz, q_answers>>
    /\ UNCHANGED QuizOthers

\* submitQuiz failed: the outer catch and the finally
QuizSubmitFailed ==
    /\ q_pending.submit = "pending"
    /\ q_flags' = [q_flags EXCEPT !.error = TRUE, !.isSubmitting = FALSE]
    /\ q_pending' = [q_pending EXCEPT !.submit = "idle"]
    /\ q_last' = "submitQuiz failed"
    /\ UNCHANGED <<q_quiz, q_answers, q_result>>
    /\ UNCHANGED QuizOthers

\* markLessonCompleted answered: the finally
MarkCompletedAnswered ==
    /\ q_pending.mark = "pending"
    /\ q_flags' = [q_flags EXCEPT !.isSubmitting = FALSE]
    /\ q_pending' = [q_pending EXCEPT !.mark = "idle"]
    /\ q_last' = "markLessonCompleted answered"
    /\ UNCHANGED <<q_quiz, q_answers, q_result>>
    /\ UNCHANGED QuizOthers

\* markLessonCompleted failed: the inner catch logs, then the finally
MarkCompletedFailed ==
    /\ q_pending.mark = "pending"
    /\ q_flags' = [q_flags EXCEPT !.isSubmitting = FALSE]
    /\ q_pending' = [q_pending EXCEPT !.mark = "idle"]
    /\ q_last' = "markLessonCompleted failed"
    /\ UNCHANGED <<q_quiz, q_answers, q_result>>
    /\ UNCHANGED QuizOthers

\* handleRetake up to the await of retakeQuiz
QuizHandleRetake ==
    /\ ResultView
    /\ ~q_flags.isRetaking
    /\ q_flags' = [q_flags EXCEPT !.isRetaking = TRUE, !.showFeedbackPrompt = TRUE]
    /\ q_result' = <<>>
    /\ q_answers' = NoAnswers
    /\ q_pending' = [q_pending EXCEPT !.retake = "pending"]
    /\ q_last' = "handleRetake"
    /\ UNCHANGED q_quiz
    /\ UNCHANGED QuizOthers

QuizRetakeAnswered ==
    /\ q_pending.retake = "pending"
    /\ q_quiz' = <<"retake">>
    /\ q_flags' = [q_flags EXCEPT !.isRetaking = FALSE]
    /\ q_pending' = [q_pending EXCEPT !.retake = "idle"]
    /\ q_last' = "retakeQuiz answered"
    /\ UNCHANGED <<q_answers, q_result>>
    /\ UNCHANGED QuizOthers

\* retakeQuiz failed: the catch awaits loadQuiz, which resets again
QuizRetakeFailed ==
    /\ q_pending.retake = "pending"
    /\ q_flags' = [q_flags EXCEPT !.isLoading = TRUE, !.error = FALSE,
                                  !.showFeedbackPrompt = TRUE]
    /\ q_result' = <<>>
    /\ q_answers' = NoAnswers
    /\ q_pending' = [q_pending EXCEPT !.retake = "fallback", !.load = "pending"]
    /\ q_last' = "retakeQuiz failed"
    /\ UNCHANGED q_quiz
    /\ UNCHANGED QuizOthers

\* handleRegenerateEasier up to the await of regenerateEasierQuiz
QuizHandleRegenerateEasier ==
    /\ ResultView
    /\ q_result[1].needs_feedback
    /\ q_flags.showFeedbackPrompt
    /\ ~q_flags.isRegenerating
    /\ q_flags' = [q_flags EXCEPT !.isRegenerating = TRUE, !.showFeedbackPrompt = TRUE]
    /\ q_result' = <<>>
    /\ q_answers' = NoAnswers
    /\ q_pending' = [q_pending EXCEPT !.easier = "pending"]
    /\ q_last' = "handleRegenerateEasier"
    /\ UNCHANGED q_quiz
    /\ UNCHANGED QuizOthers

QuizEasierAnswered ==
    /\ q_pending.easier = "pending"
    /\ q_quiz' = <<"easier">>
    /\ q_flags' = [q_flags EXCEPT !.isRegenerating = FALSE]
    /\ q_pending' = [q_pending EXCEPT !.easier = "idle"]
    /\ q_last' = "regenerateEasierQuiz answered"
    /\ UNCHANGED <<q_answers, q_result>>
    /\ UNCHANGED QuizOthers

QuizEasierFailed ==
    /\ q_pending.easier = "pending"
    /\ q_flags' = [q_flags EXCEPT !.isRegenerating = FALSE, !.error = TRUE]
    /\ q_pending' = [q_pending EXCEPT !.easier = "idle"]
    /\ q_last' = "regenerateEasierQuiz failed"
    /\ UNCHANGED <<q_quiz, q_answers, q_result>>
    /\ UNCHANGED QuizOthers

\* handleShowExplanations and the prompt's dismiss button
HideFeedbackPrompt ==
    /\ ResultView
    /\ q_result[1].needs_feedback
    /\ q_flags.showFeedbackPrompt
    /\ q_flags' = [q_flags EXCEPT !.showFeedbackPrompt = FALSE]
    /\ q_last' = "setShowFeedbackPrompt"
    /\ UNCHANGED <<q_quiz, q_answers, q_result, q_pending>>
    /\ UNCHANGED QuizOthers

NextQuiz ==
    \/ QuizLoaded
    \/ QuizLoadFailed
    \/ QuizSelectAnswer
    \/ QuizHandleSubmit
    \/ QuizSubmitAnswered
    \/ QuizSubmitFailed
    \/ MarkCompletedAnswered
    \/ MarkCompletedFailed
    \/ QuizHandleRetake
    \/ QuizRetakeAnswered
    \/ QuizRetakeFailed
    \/ QuizHandleRegenerateEasier
    \/ QuizEasierAnswered
    \/ QuizEasierFailed
    \/ HideFeedbackPrompt

SpecQuiz == InitQuiz /\ [][NextQuiz]_vars

(***************************************************************************)
(* SpecCourse: one CoursePage from its mount on.  Each handler runs to its *)
(* first await in one step; what follows the await is the step of the      *)
(* answer or of the failure.  cp_generation is the generation the service  *)
(* holds; cp_confirming holds, per confirm request outstanding, the course *)
(* its handleConfirm closed over.                                          *)
(***************************************************************************)
InitCourse ==
    /\ AdjIdle
    /\ GradeIdle
    /\ EngineIdle
    /\ RetryIdle
    /\ PagesIdle
    /\ RecordIdle
    /\ MasteryIdle
    /\ ValidateIdle
    /\ CoordIdle
    /\ ClientIdle
    /\ ExtractIdle
    /\ RepairIdle
    /\ HomeIdle
    /\ FeedbackUIIdle
    /\ ProgressPageIdle
    /\ QuizIdle
    /\ cp_course = <<>>
    /\ cp_flags = [isLoading |-> TRUE, isRegenerating |-> FALSE,
                   error |-> FALSE, showConfirmModal |-> FALSE]
    /\ cp_load = "pending"
    /\ cp_confirming = <<>>
    /\ cp_regenerate = "idle"
    /\ cp_generation = 0
    /\ cp_last = "loadCourseData"

CourseOthers ==
    <<adjVars, gradeVars, engineVars, retryVars, pageVars, recordVars,
      masteryVars, validateVars, coordVars, clientVars, extractVars,
      repairVars, homeVars, feedbackVars, progressVars, quizVars>>

\* the page past its loading and error returns
CourseView == ~cp_flags.isLoading /\ ~cp_flags.error /\ cp_course # <<>>

\* {showConfirmModal && course && <CourseConfirmationModal .../>}
ModalShown == CourseView /\ cp_flags.showConfirmModal

\* a lesson is rendered as a Link
LessonsAreLinks == CourseView /\ ~isLocked(cp_course[1])

\* the flags after the finally of loadCourseData, and of handleRegenerate
\* when the load was its reload
AfterCourseLoad(flags) ==
    [flags EXCEPT !.isLoading = FALSE,
                  !.isRegenerating = IF cp_regenerate = "reloading" THEN FALSE ELSE @]

\* loadCourseData: getCourse and getProgress answered
CourseLoaded ==
    /\ cp_load = "pending"
    /\ \E confirmed \in BOOLEAN :
          /\ cp_course' = <<CourseData(cp_generation, confirmed)>>
          /\ cp_flags' = AfterCourseLoad(
                 [cp_flags EXCEPT !.showConfirmModal = IF ~confirmed THEN TRUE ELSE @])
    /\ cp_load' = "idle"
    /\ cp_regenerate' = IF cp_regenerate = "reloading" THEN "idle" ELSE cp_regenerate
    /\ cp_last' = "loadCourseData answered"
    /\ UNCHANGED <<cp_confirming, cp_generation>>
    /\ UNCHANGED CourseOthers

\* loadCourseData: one of the two calls failed
CourseLoadFailed ==
    /\ cp_load = "pending"
    /\ cp_flags' = AfterCourseLoad([cp_flags EXCEPT !.error = TRUE])
    /\ cp_load' = "idle"
    /\ cp_regenerate' = IF cp_regenerate = "reloading" THEN "idle" ELSE cp_regenerate
    /\ cp_last' = "loadCourseData failed"
    /\ UNCHANGED <<cp_course, cp_confirming, cp_generation>>
    /\ UNCHANGED CourseOthers

\* handleConfirm up to the await of confirmCourse; the modal's button is
\* disabled only while isRegenerating
HandleConfirm ==
    /\ ModalShown
    /\ ~cp_flags.isRegenerating
    /\ Len(cp_confirming) < MaxPendingConfirms
    /\ cp_confirming' = Append(cp_confirming, cp_course[1])
    /\ cp_last' = "handleConfirm"
    /\ UNCHANGED <<cp_course, cp_flags, cp_load, cp_regenerate, cp_generation>>
    /\ UNCHANGED CourseOthers

\* confirmCourse answered: setCourse({ ...course, confirmed: true })
ConfirmAnswered ==
    /\ \E i \in 1..Len(cp_confirming) :
          /\ cp_course' = <<[cp_confirming[i] EXCEPT !.confirmed = TRUE]>>
          /\ cp_confirming' = WithoutIndex(cp_confirming, i)
    /\ cp_flags' = [cp_flags EXCEPT !.showConfirmModal = FALSE]
    /\ cp_last' = "confirmCourse answered"
    /\ UNCHANGED <<cp_load, cp_regenerate, cp_generation>>
    /\ UNCHANGED CourseOthers

ConfirmFailed ==
    /\ \E i \in 1..Len(cp_confirming) :
          cp_confirming' = WithoutIndex(cp_confirming, i)
    /\ cp_flags' = [cp_flags EXCEPT !.error = TRUE]
    /\ cp_last' = "confirmCourse failed"
    /\ UNCHANGED <<cp_course, cp_load, cp_regenerate, cp_generation>>
    /\ UNCHANGED CourseOthers

\* handleRegenerate up to the await of regenerateCourse
HandleRegenerateCourse ==
    /\ ModalShown
    /\ ~cp_flags.isRegenerating
    /\ cp_generation < MaxGenerations
    /\ cp_flags' = [cp_flags EXCEPT !.isRegenerating = TRUE]
    /\ cp_regenerate' = "pending"
    /\ cp_last' = "handleRegenerate"
    /\ UNCHANGED <<cp_course, cp_load, cp_confirming, cp_generation>>
    /\ UNCHANGED CourseOthers

\* regenerateCourse answered with success and a course: the course is set,
\* the modal closed and loadCourseData called
RegenerateAnswered ==
    /\ cp_regenerate = "pending"
    /\ cp_generation' = cp_generation + 1
    /\ \E confirmed \in BOOLEAN :
          cp_course' = <<CourseData(cp_generation + 1, confirmed)>>
    /\ cp_flags' = [cp_flags EXCEPT !.showConfirmModal = FALSE, !.isLoading = TRUE]
    /\ cp_regenerate' = "reloading"
    /\ cp_load' = "pending"
    /\ cp_last' = "regenerateCourse answered"
    /\ UNCHANGED cp_confirming
    /\ UNCHANGED CourseOthers

\* regenerateCourse answered without success, or failed
RegenerateFailed ==
    /\ cp_regenerate = "pending"
    /\ cp_flags' = [cp_flags EXCEPT !.error = TRUE, !.isRegenerating = FALSE]
    /\ cp_regenerate' = "idle"
    /\ cp_last' = "regenerateCourse failed"
    /\ UNCHANGED <<cp_course, cp_load, cp_confirming, cp_generation>>
    /\ UNCHANGED CourseOthers

NextCourse ==
    \/ CourseLoaded
    \/ CourseLoadFailed
    \/ HandleConfirm
    \/ ConfirmAnswered
    \/ ConfirmFailed
    \/ HandleRegenerateCourse
    \/ RegenerateAnswered
    \/ RegenerateFailed

SpecCourse == InitCourse /\ [][NextCourse]_vars

(***************************************************************************)
(* C1: for every tier t and every score s in 0..100 the tier after one     *)
(* graded attempt is the next higher tier if s >= 85 and t is not hard,    *)
(* the next lower tier if s < 50 and t is not easy, and t otherwise; 85    *)
(* advances and 50 does not regress.                                       *)
(***************************************************************************)
C1_TierTransition ==
    AdjDone =>
        LET s == adj_score.num
            t == adj_difficulty
            n == adj_result.updated_difficulty
        IN /\ adj_score.den = 1
           /\ (s >= 85 /\ t = "easy") => n = "medium"
           /\ (s >= 85 /\ t = "medium") => n = "hard"
           /\ (s >= 85 /\ t = "hard") => n = "hard"
           /\ (s < 50 /\ t = "hard") => n = "medium"
           /\ (s < 50 /\ t = "medium") => n = "easy"
           /\ (s < 50 /\ t = "easy") => n = "easy"
           /\ (s >= 50 /\ s < 85) => n = t

C1_Witness ==
    /\ AdjDone
    /\ adj_score = Frac(85, 1)
    /\ adj_difficulty = "medium"
    /\ adj_result.updated_difficulty = "hard"

(***************************************************************************)
(* C2: the next Bloom level follows the same rule as the tier (up one if   *)
(* s >= 85 and not Create, down one if s < 50 and not Remember, otherwise  *)
(* unchanged), whatever the current tier and the pass flag are, and the    *)
(* two tracks never move in opposite directions on one score.              *)
(***************************************************************************)
BloomRank(b) ==
    CASE b = "Remember" -> 0 [] b = "Understand" -> 1 [] b = "Apply" -> 2
      [] b = "Analyze" -> 3 [] b = "Evaluate" -> 4 [] b = "Create" -> 5

TierRank(t) == CASE t = "easy" -> 0 [] t = "medium" -> 1 [] t = "hard" -> 2

C2_BloomTransition ==
    AdjDone =>
        LET s == adj_score.num
            b == BloomRank(adj_bloom)
            n == BloomRank(adj_result.next_bloom_level)
            dt == TierRank(adj_result.updated_difficulty) - TierRank(adj_difficulty)
        IN /\ (s >= 85 /\ b < 5) => n = b + 1
           /\ (s >= 85 /\ b = 5) => n = 5
           /\ (s < 50 /\ b > 0) => n = b - 1
           /\ (s < 50 /\ b = 0) => n = 0
           /\ (s >= 50 /\ s < 85) => n = b
           /\ (n - b) * dt >= 0

C2_Witness ==
    /\ AdjDone
    /\ adj_score = Frac(40, 1)
    /\ adj_passed = TRUE
    /\ adj_difficulty = "easy"
    /\ adj_bloom = "Apply"
    /\ adj_result.next_bloom_level = "Understand"

(***************************************************************************)
(* C3: a question counts as correct iff the submitted string equals its    *)
(* correct option exactly; score = 100 * correctCount / totalQuestions;    *)
(* passed iff score >= 70; so the exact correct option for every question  *)
(* gives score 100 and passed.                                             *)
(***************************************************************************)
ExactlyRight(i) ==
    /\ g_questions[i].question_id \in DOMAIN g_answers
    /\ g_answers[g_questions[i].question_id] = g_questions[i].correct_answer

C3_Grading ==
    Graded =>
        LET n == Len(g_questions)
            right == {i \in 1..n : ExactlyRight(i)}
        IN /\ g_result.total_questions = n
           /\ g_result.correct_count = Cardinality(right)
           /\ \A i \in 1..n : g_result.feedback[i].is_correct <=> i \in right
           /\ g_result.score.num * n = 100 * Cardinality(right) * g_result.score.den
           /\ g_result.passed <=> (100 * Cardinality(right) >= 70 * n)
           /\ (right = 1..n) => (g_result.score = [num |-> 100, den |-> 1] /\ g_result.passed)

C3_Witness ==
    /\ Graded
    /\ Len(g_questions) = 3
    /\ \A i \in 1..3 : ExactlyRight(i)
    /\ g_result.score = [num |-> 100, den |-> 1]
    /\ g_result.passed

(***************************************************************************)
(* C4: a submission whose answers reference a question identifier that is  *)
(* not in the lesson's quiz is answered as rejected (no 200 result with a  *)
(* score) and leaves the stored progress as it was.                        *)
(***************************************************************************)
ReferencesUnknownId(r) ==
    \E id \in DOMAIN r.answers : id \notin QuizIds(Quiz(r.lesson))

C4_UnknownIdRejected ==
    [][\A w \in Workers :
         (pc[w] = "loaded" /\ pc'[w] = "done" /\ ReferencesUnknownId(req[w]))
             => (result'[w].status # 200 /\ progress' = progress)]_vars

(***************************************************************************)
(* C5: submissions on one (course, lesson, learner) key are applied        *)
(* atomically: whatever the interleaving, each record equals the updates   *)
(* of the submissions completed on its key applied one after another       *)
(* (attempt count and history length = their number, none lost), and a     *)
(* submission on one key leaves the records of the other keys as they are. *)
(***************************************************************************)
RECURSIVE Replay(_, _)
Replay(l, scores) ==
    IF scores = <<>> THEN new_lesson_progress(l)
    ELSE LET last == scores[Len(scores)] IN
         update_lesson_progress(Replay(l, SubSeq(scores, 1, Len(scores) - 1)),
                                last, is_passed(last))

C6_BoundedAttempts ==
    /\ r_calls <= MAX_RETRIES
    /\ r_calls = Len(r_outcomes) + (IF r_pc = "awaiting" THEN 1 ELSE 0)
    /\ \A i \in 1..Len(r_outcomes) :
          r_outcomes[i].kind = "valid" =>
              /\ i = Len(r_outcomes)
              /\ r_calls = i
              /\ r_pc = "returned"
              /\ r_return = [kind |-> "success", value |-> r_outcomes[i].raw, raised |-> FALSE]
    /\ r_return.kind = "success" =>
          (r_outcomes # <<>> /\ r_outcomes[Len(r_outcomes)].kind = "valid")

C6_Witness ==
    /\ r_pc = "returned"
    /\ r_return.kind = "success"
    /\ r_calls = 2
    /\ r_outcomes[1].kind = "validation_failed"

(***************************************************************************)
(* C7: when every one of the MAX_RETRIES attempts fails, by transport,     *)
(* repair or validation failure in any mix, the invocation returns         *)
(* GenerationExhausted with the last raw response (none if no attempt got  *)
(* a response), as a value and never as a raised fault; it is returned     *)
(* only after all MAX_RETRIES attempts were consumed.                      *)
(***************************************************************************)
AllFailed(kinds) ==
    /\ Len(r_outcomes) = MAX_RETRIES
    /\ \A i \in 1..MAX_RETRIES : r_outcomes[i].kind \in kinds

RECURSIVE LastRaw(_)
LastRaw(outcomes) ==
    IF outcomes = <<>> THEN None
    ELSE IF outcomes[Len(outcomes)].raw # None THEN outcomes[Len(outcomes)].raw
    ELSE LastRaw(SubSeq(outcomes, 1, Len(outcomes) - 1))

FollowedByNextAttempt(i) == i < MAX_RETRIES => r_calls > i

InFlight(slot) == {t \in Tabs : SlotOf(page[t].pending) = slot}

C9_OneRegenerationPerSlot ==
    \A slot \in {"lesson", "quiz"} : Cardinality(InFlight(slot)) <= 1

(***************************************************************************)
(* C10: regeneration keeps the lesson identifier: the stored course holds  *)
(* the same lesson identifiers in the same slots after any sequence of     *)
(* regenerations, and a LessonPage whose reload succeeded after its        *)
(* feedback shows the lesson of its lessonId, with content at least as new *)
(* as the regeneration it asked for.                                       *)
(***************************************************************************)
C10_IdentifierKept ==
    /\ [i \in 1..Len(course) |-> course[i].lesson_id] = CourseLessonIds
    /\ \A t \in Tabs :
         (page[t].kind = "lesson" /\ ~page[t].isLoading /\ ~page[t].error) =>
            /\ page[t].lesson # NoLesson
            /\ page[t].lesson.lesson_id = ViewedLesson
            /\ page[t].lesson.content >= page[t].regenerated
            /\ page[t].lesson.content <= course[SlotIndex(ViewedLesson)].content

C10_Witness ==
    \E t \in Tabs :
        /\ LessonShown(page[t])
        /\ ~page[t].isRegenerating
        /\ page[t].regenerated = MaxRegenerations - 1
        /\ page[t].lesson.lesson_id = ViewedLesson
        /\ page[t].lesson.content = page[t].regenerated


(***************************************************************************)
(* C11: after any sequence of graded attempts the current tier is one of   *)
(* the three tiers and the current Bloom level one of the six levels, and  *)
(* one graded attempt moves each of them by at most one adjacent step.     *)
(***************************************************************************)
Distance(a, b) == IF a >= b THEN a - b ELSE b - a

C11_AdjacentSteps ==
    /\ record.current_difficulty \in Difficulties
    /\ record.current_bloom_level \in BloomLevels
    /\ Distance(TierRank(record.current_difficulty),
                TierRank(before.current_difficulty)) <= 1
    /\ Distance(BloomRank(record.current_bloom_level),
                BloomRank(before.current_bloom_level)) <= 1

C11_Witness ==
    /\ record.quiz_attempts = 2
    /\ before.current_difficulty = "easy"
    /\ record.current_difficulty = "medium"
    /\ before.current_bloom_level = "Evaluate"
    /\ record.current_bloom_level = "Create"

(***************************************************************************)
(* C12: the smoothed score is r/100 after the first graded attempt with    *)
(* raw score r, and 0.3*(r'/100) + 0.7*(previous smoothed score) after     *)
(* every later attempt with raw score r'.                                  *)
(***************************************************************************)
C12_Smoothed ==
    attempt # NoAttempt =>
        LET r == attempt.score
            s == record.smoothed_score
            prev == before.smoothed_score
        IN IF before.quiz_attempts = 0
           THEN s.num * 100 * r.den = r.num * s.den
           ELSE s.num * 1000 * r.den * prev.den
                    = s.den * (3 * r.num * prev.den + 700 * prev.num * r.den)

C12_Witness ==
    /\ record.quiz_attempts = 2
    /\ before.smoothed_score = Frac(2, 3)
    /\ attempt.score = Frac(100, 1)
    /\ record.smoothed_score = Frac(23, 30)

(***************************************************************************)
(* C13 (as stated): from a record with no attempts at tier medium and      *)
(* level Understand, a 3-question quiz can be graded with score 90, giving *)
(* tier hard, level Apply, best score 90 and smoothed score 0.90.          *)
(***************************************************************************)
AfterNinety(rec) ==
    /\ rec.quiz_attempts = 1
    /\ rec.current_difficulty = "hard"
    /\ rec.current_bloom_level = "Apply"
    /\ rec.best_score = Frac(90, 1)
    /\ rec.smoothed_score = Frac(9, 10)

C13_ThreeQuestionScenario ==
    record = new_lesson_progress("l1") =>
        \E c \in 0..3 :
            LET g == grade_quiz(QuizOfSize(3), FirstCorrect(c)) IN
            /\ g.score = Frac(90, 1)
            /\ AfterNinety(update_lesson_progress(record, g.score, is_passed(g.score)))

(***************************************************************************)
(* C13 (amended): from a record with no attempts at tier medium and level  *)
(* Understand, a graded attempt with score 90 (9 of 10 correct) gives tier *)
(* hard, level Apply, best score 90, smoothed score 0.90; a following      *)
(* graded attempt with score 40 gives tier medium, level Understand, best  *)
(* score 90, smoothed score 0.75.                                          *)
(***************************************************************************)
C13_Scenario ==
    /\ (/\ before = new_lesson_progress("l1")
        /\ attempt # NoAttempt
        /\ attempt.score = Frac(90, 1)) => AfterNinety(record)
    /\ (/\ AfterNinety(before)
        /\ before.attempt_history[1].score = Frac(90, 1)
        /\ record.quiz_attempts = 2
        /\ attempt.score = Frac(40, 1)) =>
            /\ record.current_difficulty = "medium"
            /\ record.current_bloom_level = "Understand"
            /\ record.best_score = Frac(90, 1)
            /\ record.smoothed_score = Frac(3, 4)

C13_Witness ==
    /\ record.quiz_attempts = 2
    /\ record.attempt_history[1].score = Frac(90, 1)
    /\ record.attempt_history[2].score = Frac(40, 1)
    /\ attempt.total_questions = 10
    /\ AfterNinety(before)
    /\ record.smoothed_score = Frac(3, 4)


(***************************************************************************)
(* C14: the mastery classification depends on (attempt count, best score)  *)
(* only: Not Started when the attempt count is 0; otherwise Mastered if    *)
(* best score >= 85, Proficient if >= 70, Developing if >= 50, and Needs   *)
(* Practice below 50.                                                      *)
(***************************************************************************)
AtLeast(x, percent) == x.num >= percent * x.den

C14_Mastery ==
    m_level # NotClassified =>
        /\ m_level.level = "Not Started" <=> m_attempts = 0
        /\ m_level.level = "Mastered" <=> (m_attempts > 0 /\ AtLeast(m_best, 85))
        /\ m_level.level = "Proficient" <=>
              (m_attempts > 0 /\ AtLeast(m_best, 70) /\ ~AtLeast(m_best, 85))
        /\ m_level.level = "Developing" <=>
              (m_attempts > 0 /\ AtLeast(m_best, 50) /\ ~AtLeast(m_best, 70))
        /\ m_level.level = "Needs Practice" <=>
              (m_attempts > 0 /\ ~AtLeast(m_best, 50))

C14_Witness ==
    /\ m_level.level = "Proficient"
    /\ m_best = Frac(84, 1)
    /\ m_attempts = 1


(***************************************************************************)
(* C15: a graded result is flagged needs_feedback iff correct_count <      *)
(* total_questions, whether or not the attempt passed, and the feedback    *)
(* prompt is offered to the learner only for results carrying the flag.    *)
(***************************************************************************)
PromptOffered(p) == QuizShown(p) /\ HasResult(p) /\ FeedbackPromptShown(p)

C15_NeedsFeedback ==
    \A t \in Tabs :
        HasResult(page[t]) =>
            /\ page[t].result.needs_feedback <=>
                  page[t].result.correct_count < page[t].result.total_questions
            /\ PromptOffered(page[t]) =>
                  page[t].result.correct_count < page[t].result.total_questions

C15_Witness ==
    \E t \in Tabs :
        /\ PromptOffered(page[t])
        /\ page[t].result.passed
        /\ page[t].result.correct_count = 9


(***************************************************************************)
(* C16: a candidate question whose designated correct option is not one of *)
(* its four options is rejected, never repaired: every question list that  *)
(* the generation returns is the candidate as it came out of repair, and   *)
(* each of its questions has four options with the correct option among    *)
(* them, also when repair_quiz_json synthesized the candidate.             *)
(***************************************************************************)
C16_NoInvalidQuestion ==
    (v_pc = "returned" /\ v_return.kind = "success") =>
        /\ v_return.value = v_candidate
        /\ \A i \in 1..Len(v_return.value) :
              /\ Len(v_return.value[i].options) = 4
              /\ \E k \in 1..4 :
                    v_return.value[i].options[k] = v_return.value[i].correct_answer

C16_Witness ==
    /\ v_pc = "returned"
    /\ v_return.kind = "success"
    /\ v_stage = "repair_quiz_json"
    /\ v_attempt = 2
    /\ Len(v_return.value) = 2


RankBelow(rank) == IF rank > 0 THEN rank - 1 ELSE 0
RankAbove(rank) == IF rank < 2 THEN rank + 1 ELSE 2

RecordBefore == Get(c_before, CoordLesson, new_lesson_progress(CoordLesson))

LastScore == RecordBefore.attempt_history[Len(RecordBefore.attempt_history)].score

C20_EventuallyReturns ==
    <>(/\ k_pc = "returned"
       /\ k_return.kind \in {"success", "exhausted"})

C20_Witness ==
    /\ k_pc = "returned"
    /\ k_return.kind = "exhausted"
    /\ k_outcomes = <<"timeout", "timeout", "timeout">>


NoOpener(text) == \A i \in 1..Len(text) : text[i] # "[" /\ text[i] # "{"

ClaimedOrder ==
    <<"direct_parse", "fix_common", "extract_array", "extract_object",
      "truncate", "repair_quiz_json">>

Succeeds(k) == t_profile[ClaimedOrder[k]] # "fail"

C23_FirstSuccessWins ==
    /\ Len(t_tried) <= Len(ClaimedOrder)
    /\ \A k \in 1..Len(t_tried) :
          /\ t_tried[k].stage = ClaimedOrder[k]
          /\ t_tried[k].input = "raw"
          /\ \A j \in 1..(k - 1) : ~Succeeds(j)
    /\ (t_result.done /\ t_result.ok) =>
          /\ Succeeds(Len(t_tried))
          /\ t_result.stage = ClaimedOrder[Len(t_tried)]
          /\ t_result.value = t_profile[t_result.stage]
    /\ (t_result.done /\ ~t_result.ok) =>
          /\ Len(t_tried) = Len(ClaimedOrder)
          /\ \A k \in 1..Len(ClaimedOrder) : ~Succeeds(k)
    /\ (\E k \in 1..Len(t_tried) : Succeeds(k)) => (t_result.done /\ t_result.ok)

C23_Witness ==
    /\ t_result.ok
    /\ t_result.stage = "truncate"
    /\ t_result.value = "value_b"
    /\ t_profile["repair_quiz_json"] = "value_a"
    /\ Len(t_tried) = 5


(***************************************************************************)
(* C24: after any sequence of graded attempts the best score equals the    *)
(* maximum raw score over the attempts of the history, and it never        *)
(* decreases from one attempt to the next.                                 *)
(***************************************************************************)
HistoryScores(rec) == {rec.attempt_history[i].score : i \in 1..Len(rec.attempt_history)}

C24_BestIsMaximum ==
    /\ record.quiz_attempts > 0 =>
          /\ record.best_score \in HistoryScores(record)
          /\ \A x \in HistoryScores(record) :
                x.num * record.best_score.den <= record.best_score.num * x.den
    /\ before.best_score.num * record.best_score.den
          <= record.best_score.num * before.best_score.den

C24_Witness ==
    /\ record.quiz_attempts = 3
    /\ record.attempt_history[1].score = Frac(200, 3)
    /\ record.attempt_history[2].score = Frac(90, 1)
    /\ record.attempt_history[3].score = Frac(0, 1)
    /\ record.best_score = Frac(90, 1)


(***************************************************************************)
(* C22: following a resume entry of the home page for a course that has    *)
(* progress leads to a path that a route of the application matches, the   *)
(* lesson route.                                                           *)
(***************************************************************************)
LessonRoute == <<"course", ":courseId", "lesson", ":lessonId">>

C22_ContinueReachesLesson ==
    h_origin = "continue" =>
        /\ Defined(h_location)
        /\ Matches(h_location, LessonRoute)


(***************************************************************************)
(* C25: every value a feedback component hands on when the learner picks   *)
(* one of its options is one of the five accepted feedback types, so none  *)
(* is rejected as unrecognized.                                            *)
(***************************************************************************)
C25_AllOptionsAccepted ==
    \A i \in 1..Len(f_emitted) :
        accepted_feedback_type(f_emitted[i].value) # <<>>


(***************************************************************************)
(* C26: every mastery label the classification produces has its own        *)
(* configuration in MasteryIndicator (a started lesson is never shown in   *)
(* the 'Not Started' style), and the five mastery-distribution counts of   *)
(* ProgressPage are non-negative integers that sum to the number of        *)
(* lessons of the progress data.                                           *)
(***************************************************************************)
RECURSIVE SumCounts(_, _)
SumCounts(count, keys) ==
    IF keys = {} THEN 0
    ELSE LET k == CHOOSE x \in keys : TRUE
         IN  count[k][1] + SumCounts(count, keys \ {k})

C26_LabelsKnown ==
    pp_stats # <<>> =>
        LET lessons == pp_progress[1]
            stats == pp_stats[1]
        IN  /\ \A i \in 1..Len(lessons) :
                  /\ lessons[i].mastery.level \in masteryConfig
                  /\ lessons[i].quiz_attempts > 0 =>
                        stats.indicators[i] # "Not Started"
            /\ DOMAIN stats.masteryCount = masteryConfig
            /\ \A k \in masteryConfig :
                  /\ stats.masteryCount[k] # NaN
                  /\ stats.masteryCount[k][1] >= 0
            /\ SumCounts(stats.masteryCount, masteryConfig) = Len(lessons)

(***************************************************************************)
(* C27: the average score of ProgressPage is within 0..100 and is the mean *)
(* of the best scores of the lessons it sums (those with a best score      *)
(* above zero, completed or not).                                          *)
(***************************************************************************)
C27_AverageIsMean ==
    pp_stats # <<>> =>
        LET lessons == pp_progress[1]
            stats == pp_stats[1]
            summed == {i \in 1..Len(lessons) : lessons[i].best_score.num > 0}
        IN  /\ stats.avgScore.num >= 0
            /\ stats.avgScore.num <= 100 * stats.avgScore.den
            /\ stats.shownAverage \in 0..100
            /\ summed # {} =>
                  stats.avgScore =
                      FracDiv(SumBestScores(lessons, 1), Cardinality(summed))


(***************************************************************************)
(* C28: while QuizPage holds a result no step changes the answers, a call  *)
(* of handleSelectAnswer included, except the reset that clears the result *)
(* and the answers together; the result is never cleared without the       *)
(* answers being cleared with it.                                          *)
(***************************************************************************)
C28_AnswersFrozen ==
    [][ q_result # <<>> =>
          /\ q_answers' = q_answers \/ (q_result' = <<>> /\ q_answers' = NoAnswers)
          /\ q_result' = <<>> => q_answers' = NoAnswers ]_vars

C28_Witness ==
    /\ q_last = "handleSelectAnswer"
    /\ q_result # <<>>
    /\ DOMAIN q_answers = QuizQuestionIds

(***************************************************************************)
(* C29: markLessonCompleted is requested only in the step that receives a  *)
(* submit-quiz response with passed true; its failure leaves the result    *)
(* and the error as they were; and isSubmitting is false whenever neither  *)
(* the submission nor the mark-completed request is outstanding.           *)
(***************************************************************************)
C29_MarkAfterPass ==
    /\ [](q_pending.submit = "idle" /\ q_pending.mark = "idle" => ~q_flags.isSubmitting)
    /\ [][ /\ (q_pending.mark = "idle" /\ q_pending'.mark = "pending") =>
                /\ q_pending.submit = "pending"
                /\ q_result' # <<>>
                /\ q_result'[1].passed
           /\ q_pending.submit = "pending" /\ q_flags'.error =>
                q_pending'.mark = "idle"
           /\ q_last' = "markLessonCompleted failed" =>
                /\ q_result' = q_result
                /\ q_flags'.error = q_flags.error
                /\ ~q_flags'.isSubmitting ]_vars

C29_Witness ==
    /\ q_last = "markLessonCompleted failed"
    /\ q_result # <<>>
    /\ q_result[1].passed
    /\ ~q_flags.error
    /\ ~q_flags.isSubmitting


(***************************************************************************)
(* C30: in CoursePage the lessons are links exactly when the course held   *)
(* is confirmed; the confirmation modal is shown whenever a load returns   *)
(* an unconfirmed course; a successful confirm closes it and leaves the    *)
(* course confirmed; and after the reload that follows a successful        *)
(* regenerate it is shown exactly when the reloaded course is unconfirmed. *)
(***************************************************************************)
C30_ConfirmationGate ==
    /\ [](CourseView => (LessonsAreLinks <=> cp_course[1].confirmed))
    /\ [][ /\ (cp_last' = "loadCourseData answered" /\ ~cp_course'[1].confirmed) =>
                ModalShown'
           /\ cp_last' = "confirmCourse answered" =>
                /\ ~cp_flags'.showConfirmModal
                /\ cp_course'[1].confirmed
           /\ (cp_regenerate = "reloading" /\ cp_last' = "loadCourseData answered") =>
                (ModalShown' <=> ~cp_course'[1].confirmed) ]_vars

====
